---- MODULE Spec2Model ----
(***************************************************************************)
(* pren: template grammar parser (parser.rs) and reference-resolving       *)
(* renderer with its RenderValidationContext (pren-core prompt.rs).        *)
(*                                                                         *)
(* A Rust String is modelled as a sequence of characters; a character is a *)
(* one-character TLA+ string, except non-ASCII characters, which are named *)
(* by their code point ("U+00E9" is e-acute, "U+0663" is ARABIC-INDIC      *)
(* DIGIT THREE).                                                           *)
(***************************************************************************)
EXTENDS Integers, Sequences, FiniteSets, TLC

VARIABLES
    storage,      \* MockStorage.prompts: prompt name -> content
    phase,        \* "idle" (no render running), "rendering" or "returned"
    template,     \* content of the prompt the running render() was called on
    arguments,    \* the arguments map of the running render() call
    context,      \* RenderValidationContext: [visited_prompts, current_depth]
    stack,        \* call stack of render_internal activations, outermost first
    outcome,      \* result of the last finished render(): Ok(String) / Err(message)
    lastEnter,    \* observation of the latest enter_prompt call
    lastReturn,   \* observation of the latest render_prompt_reference return
    log,          \* observable events of the running render, in order
    input,        \* parser harness: the content string handed to parse_template
    parsed,       \* parser harness: what parse_template returned for input
    files,        \* FileStorage: base_path and the prompt files under it
    called        \* FileStorage: the latest call and what it returned

vars == <<storage, phase, template, arguments, context, stack, outcome,
          lastEnter, lastReturn, log, input, parsed, files, called>>

renderVars == <<storage, phase, template, arguments, context, stack, outcome,
                lastEnter, lastReturn, log>>

parseVars == <<input, parsed>>

fileVars == <<files, called>>

None == [none |-> TRUE]

\* a directory without files
NoEntries == [path \in {} |-> <<>>]

\* a base_path that does not exist yet
NoFiles == [base |-> "missing", entries |-> NoEntries]

(***************************************************************************)
(* Bounds of the model and constants of the program.                       *)
(***************************************************************************)
\* longest reference chain p1 -> p2 -> ... put into a storage
MaxChain == 5
\* number of fragments typed into the parser harness input
MaxFragments == 4
\* const MAX_NESTING_DEPTH: usize = 3
MAX_NESTING_DEPTH == 3
\* longest identifier typed into the identifier-length harness
MaxIdentifier == 66
\* take_while_m_n(1, 64, ...)
IdentMin == 1
IdentMax == 64

(***************************************************************************)
(* Characters and strings.                                                 *)
(***************************************************************************)
AsciiLetters == {"a", "b", "c", "d", "e", "f", "g", "h", "i", "j", "k", "l", "m",
                 "n", "o", "p", "q", "r", "s", "t", "u", "v", "w", "x", "y", "z",
                 "A", "B", "C", "D", "E", "F", "G", "H", "I", "J", "K", "L", "M",
                 "N", "O", "P", "Q", "R", "S", "T", "U", "V", "W", "X", "Y", "Z"}

AsciiDigits == {"0", "1", "2", "3", "4", "5", "6", "7", "8", "9"}

\* Characters outside ASCII with the Unicode Alphabetic property or a numeric
\* general category (Nd, Nl, No): char::is_alphanumeric is true of them.
UnicodeAlphanumeric == {"U+00E9", "U+0663"}

DecimalDigits == <<"0", "1", "2", "3", "4", "5", "6", "7", "8", "9">>

\* Display of a usize below 10, as format!("{}", n) writes it.
Decimal(n) == <<DecimalDigits[n + 1]>>

Min(S) == CHOOSE m \in S : \A k \in S : m <= k

Take(s, n) == SubSeq(s, 1, n)

Drop(s, n) == SubSeq(s, n + 1, Len(s))

(***************************************************************************)
(* nom combinators, as parser.rs uses them. A result is                    *)
(* [ok, rest, out]: IResult<&str, O>, Ok((rest, out)) or Err.              *)
(***************************************************************************)
ParseErr == [ok |-> FALSE, rest |-> <<>>, out |-> <<>>]

ParseOk(rest, out) == [ok |-> TRUE, rest |-> rest, out |-> out]

\* nom::bytes::complete::tag
tag(t, s) ==
    IF Len(s) >= Len(t) /\ Take(s, Len(t)) = t
    THEN ParseOk(Drop(s, Len(t)), t)
    ELSE ParseErr

\* nom::bytes::complete::take_until: up to the first occurrence of pat,
\* an error when pat does not occur.
take_until(pat, s) ==
    LET at == {i \in 0..(Len(s) - Len(pat)) : SubSeq(s, i + 1, i + Len(pat)) = pat}
    IN  IF at = {} THEN ParseErr
        ELSE ParseOk(Drop(s, Min(at)), Take(s, Min(at)))

\* nom::combinator::rest
rest(s) == ParseOk(<<>>, s)

\* char::is_alphanumeric: Unicode-aware (Alphabetic or Numeric)
is_alphanumeric(c) == c \in AsciiLetters \cup AsciiDigits \cup UnicodeAlphanumeric

is_ascii_alphanumeric(c) == c \in AsciiLetters \cup AsciiDigits

\* the closure of identifier(): |c: char| c.is_alphanumeric() || c == '-' || c == '_'
IdentifierChar(c) == is_alphanumeric(c) \/ c = "-" \/ c = "_"

\* number of leading characters of s that satisfy the identifier predicate
LeadingIdentifierChars(s) ==
    Min({k \in 0..Len(s) : k = Len(s) \/ ~IdentifierChar(s[k + 1])})

\* take_while_m_n without its upper limit n
take_while_m_n_unbounded(m, n, s) ==
    IF LeadingIdentifierChars(s) < m THEN ParseErr
    ELSE ParseOk(Drop(s, LeadingIdentifierChars(s)), Take(s, LeadingIdentifierChars(s)))

\* nom::bytes::complete::take_while_m_n(m, n, IdentifierChar): the longest
\* prefix of matching characters, at most n of them; an error below m.
take_while_m_n(m, n, s) ==
    LET k == LeadingIdentifierChars(s)
        taken == IF k > n THEN n ELSE k
    IN  IF taken < m THEN ParseErr
        ELSE ParseOk(Drop(s, taken), Take(s, taken))

\* fn identifier
identifier(s) == take_while_m_n(IdentMin, IdentMax, s)

OPEN == <<"{", "{">>

CLOSE == <<"}", "}">>

\* nom::sequence::delimited, second parser identifier: runs on what the first
\* left and keeps its own output
ThenIdentifier(first) == IF first.ok THEN identifier(first.rest) ELSE ParseErr

\* nom::sequence::delimited, second parser take_until("}}}}")
ThenUntilEscapeEnd(first) ==
    IF first.ok THEN take_until(CLOSE \o CLOSE, first.rest) ELSE ParseErr

\* nom::sequence::delimited, third parser: must match after the second,
\* whose output is kept
KeepOutput(third, out) == IF third.ok THEN ParseOk(third.rest, out) ELSE ParseErr

Terminated(second, close) ==
    IF second.ok THEN KeepOutput(tag(close, second.rest), second.out) ELSE ParseErr

\* delimited(tag(open), identifier, tag(close))
delimited_identifier(open, close, s) ==
    Terminated(ThenIdentifier(tag(open, s)), close)

PROMPT == <<"p", "r", "o", "m", "p", "t", ":">>

PROMPT_VAR == <<"p", "r", "o", "m", "p", "t", "_", "v", "a", "r", ":">>

\* fn parse_argument
parse_argument(s) == delimited_identifier(OPEN, CLOSE, s)

\* fn parse_prompt_reference
parse_prompt_reference(s) == delimited_identifier(OPEN \o PROMPT, CLOSE, s)

\* The variable-reference rule `{{prompt_var:` IDENT `}}` (spec 4.1, rule 3).
parse_variable_prompt_reference(s) == delimited_identifier(OPEN \o PROMPT_VAR, CLOSE, s)

\* parse_escaped_literal with the opener `{{` for `{{{{`
parse_escaped_literal_short_opener(s) ==
    Terminated(ThenUntilEscapeEnd(tag(OPEN, s)), CLOSE \o CLOSE)

\* take_until that runs up to the last occurrence of pat
take_until_last(pat, s) ==
    LET at == {i \in 0..(Len(s) - Len(pat)) : SubSeq(s, i + 1, i + Len(pat)) = pat}
    IN  IF at = {} THEN ParseErr
        ELSE ParseOk(Drop(s, CHOOSE m \in at : \A k \in at : k <= m),
                     Take(s, CHOOSE m \in at : \A k \in at : k <= m))

ThenUntilLastEscapeEnd(first) ==
    IF first.ok THEN take_until_last(CLOSE \o CLOSE, first.rest) ELSE ParseErr

\* parse_escaped_literal taking the longest span
parse_escaped_literal_greedy(s) ==
    Terminated(ThenUntilLastEscapeEnd(tag(OPEN \o OPEN, s)), CLOSE \o CLOSE)

\* fn parse_escaped_literal: delimited(tag("{{{{"), take_until("}}}}"), tag("}}}}"))
parse_escaped_literal(s) ==
    Terminated(ThenUntilEscapeEnd(tag(OPEN \o OPEN, s)), CLOSE \o CLOSE)

\* nom::branch::alt of two parsers' results: the first that is Ok
Alt(first, second) == IF first.ok THEN first ELSE second

\* nom::combinator::verify(.., |s| !s.is_empty())
VerifyNotEmpty(r) == IF r.ok /\ r.out # <<>> THEN r ELSE ParseErr

\* parse_literal_text that stops at a single `{`
parse_literal_text_single_brace(s) ==
    VerifyNotEmpty(Alt(take_until(<<"{">>, s), rest(s)))

\* parse_literal_text with verify inside the alt: alt((verify(take_until("{{")), rest))
parse_literal_text_lenient(s) ==
    Alt(VerifyNotEmpty(take_until(OPEN, s)), VerifyNotEmpty(rest(s)))

\* fn parse_literal_text: verify(alt((take_until("{{"), rest)), non-empty)
parse_literal_text(s) == VerifyNotEmpty(Alt(take_until(OPEN, s), rest(s)))

Literal(text) == [kind |-> "Literal", text |-> text]

Argument(name) == [kind |-> "Argument", text |-> name]

PromptReference(name) == [kind |-> "PromptReference", text |-> name]

VariablePromptReference(name) == [kind |-> "VariablePromptReference", text |-> name]

\* nom::combinator::map(parser, |text| PromptTemplatePart::Kind(text.to_string()))
Map(r, kind) ==
    IF r.ok THEN ParseOk(r.rest, [kind |-> kind, text |-> r.out]) ELSE ParseErr

\* fn parse_element: alt((escaped literal, prompt reference, [variable
\* reference,] argument, literal text)), the first that succeeds
parse_element(s) ==
    Alt(Map(parse_escaped_literal(s), "Literal"),
        Alt(Map(parse_prompt_reference(s), "PromptReference"),
            Alt(Map(parse_variable_prompt_reference(s), "VariablePromptReference"),
                Alt(Map(parse_argument(s), "Argument"),
                    Map(parse_literal_text(s), "Literal")))))

\* nom::multi::many0(parse_element): applies parse_element until it fails and
\* returns what it gathered with the input left at the failure.
RECURSIVE Many0Step(_, _, _)
Many0Step(r, s, acc) ==
    IF ~r.ok THEN ParseOk(s, acc)
    ELSE Many0Step(parse_element(r.rest), r.rest, Append(acc, r.out))

many0_parse_element(s) == Many0Step(parse_element(s), s, <<>>)

\* nom::combinator::all_consuming
all_consuming(r) ==
    IF r.ok /\ r.rest # <<>> THEN [ok |-> FALSE, rest |-> r.rest, out |-> <<>>] ELSE r

\* fn parse_template: all_consuming(many0(parse_element))
parse_template(s) == all_consuming(many0_parse_element(s))

(***************************************************************************)
(* Parser harness: a content string is typed fragment by fragment and      *)
(* handed to parse_template.                                               *)
(***************************************************************************)
Fragments ==
    { OPEN, CLOSE, OPEN \o OPEN, CLOSE \o CLOSE, PROMPT, PROMPT_VAR,
      <<"a">>, <<"@">>, <<"U+00E9">>, <<"{">>, <<"}">> }

ParseInit ==
    /\ input = [text |-> <<>>, fragments |-> 0]
    /\ parsed = parse_template(<<>>)
    /\ files = NoFiles
    /\ called = None
    /\ storage = <<>>
    /\ phase = "idle"
    /\ template = <<>>
    /\ arguments = <<>>
    /\ context = None
    /\ stack = <<>>
    /\ outcome = None
    /\ lastEnter = None
    /\ lastReturn = None
    /\ log = <<>>

\* One more fragment is typed and the new content is parsed.
TypeAndParse(f) ==
    /\ input.fragments < MaxFragments
    /\ input' = [text |-> input.text \o f, fragments |-> input.fragments + 1]
    /\ parsed' = parse_template(input.text \o f)
    /\ UNCHANGED <<renderVars, fileVars>>

ParseNext == \E f \in Fragments : TypeAndParse(f)

ParseSpec == ParseInit /\ [][ParseNext]_vars

(***************************************************************************)
(* Identifier-length harness: an opener, an identifier that grows by one   *)
(* character at a time, and the closer; every content is handed to         *)
(* parse_template.                                                         *)
(***************************************************************************)
Openers == {OPEN, OPEN \o PROMPT}

IdentifierRunChars == {"a", "Z", "0", "-", "_"}

Enclosed(open, name) ==
    [text |-> open \o name \o CLOSE, open |-> open, name |-> name]

LengthInit ==
    /\ \E open \in Openers : input = Enclosed(open, <<>>)
    /\ parsed = parse_template(input.text)
    /\ files = NoFiles
    /\ called = None
    /\ storage = <<>>
    /\ phase = "idle"
    /\ template = <<>>
    /\ arguments = <<>>
    /\ context = None
    /\ stack = <<>>
    /\ outcome = None
    /\ lastEnter = None
    /\ lastReturn = None
    /\ log = <<>>

\* The identifier, a run of one character, gets one character longer and
\* the new content is parsed.
LengthenAndParse(c) ==
    /\ Len(input.name) < MaxIdentifier
    /\ input.name # <<>> => c = input.name[1]
    /\ input' = Enclosed(input.open, Append(input.name, c))
    /\ parsed' = parse_template(input.open \o Append(input.name, c) \o CLOSE)
    /\ UNCHANGED <<renderVars, fileVars>>

LengthNext == \E c \in IdentifierRunChars : LengthenAndParse(c)

LengthSpec == LengthInit /\ [][LengthNext]_vars

(***************************************************************************)
(* Error messages. A message is the sequence of the format!() applications *)
(* that built it, outermost first: [fmt, arg] is format!(fmt, arg, ...),   *)
(* the last `{}` of a wrapping format being filled by the segments after   *)
(* it.                                                                     *)
(***************************************************************************)
Segment(fmt, arg) == [fmt |-> fmt, arg |-> arg]

MissingArgument(name) == <<Segment("Missing argument: {}", name)>>

CircularFormat ==
    "Circular reference detected: prompt '{}' references itself (directly or indirectly)"

CircularReference(name) == <<Segment(CircularFormat, name)>>

MaxDepthExceeded ==
    <<Segment("Maximum nesting depth of {} exceeded", Decimal(MAX_NESTING_DEPTH))>>

\* an error handed up without the reference that triggered it
FailedToRender_unwrapped(name, inner) == inner

FailedToRender(name, inner) ==
    <<Segment("Failed to render referenced prompt '{}': {}", name)>> \o inner

ErrorParsing(name, inner) ==
    <<Segment("Error parsing referenced prompt '{}': {}", name)>> \o inner

ErrorRetrieving(name, inner) ==
    <<Segment("Error retrieving referenced prompt '{}': {}", name)>> \o inner

\* Display of ParseTemplateError around PromptTemplate::new's message; the
\* Debug text of the nom error is not modelled.
ParseTemplateError ==
    <<Segment("Error found while parsing template: {}", <<>>),
      Segment("Failed to parse template: {:?}", <<>>)>>

\* MockStorageError of get_prompt
PromptNotFound == <<Segment("Prompt not found", <<>>)>>

(***************************************************************************)
(* RenderValidationContext                                                 *)
(***************************************************************************)
\* RenderValidationContext::new
NewContext == [visited_prompts |-> {}, current_depth |-> 0]

\* enter_prompt without its visited_prompts check
enter_prompt_without_cycle_check(ctx, prompt_name) ==
    IF ctx.current_depth >= MAX_NESTING_DEPTH
    THEN [ok |-> FALSE, context |-> ctx, message |-> MaxDepthExceeded]
    ELSE [ok |-> TRUE,
          context |-> [visited_prompts |-> ctx.visited_prompts \cup {prompt_name},
                       current_depth |-> ctx.current_depth + 1],
          message |-> <<>>]

\* enter_prompt with `>` for `>=` in the depth check
enter_prompt_off_by_one(ctx, prompt_name) ==
    IF prompt_name \in ctx.visited_prompts
    THEN [ok |-> FALSE, context |-> ctx, message |-> CircularReference(prompt_name)]
    ELSE IF ctx.current_depth > MAX_NESTING_DEPTH
    THEN [ok |-> FALSE, context |-> ctx, message |-> MaxDepthExceeded]
    ELSE [ok |-> TRUE,
          context |-> [visited_prompts |-> ctx.visited_prompts \cup {prompt_name},
                       current_depth |-> ctx.current_depth + 1],
          message |-> <<>>]

\* enter_prompt with the depth check before the visited_prompts check
enter_prompt_depth_first(ctx, prompt_name) ==
    IF ctx.current_depth >= MAX_NESTING_DEPTH
    THEN [ok |-> FALSE, context |-> ctx, message |-> MaxDepthExceeded]
    ELSE IF prompt_name \in ctx.visited_prompts
    THEN [ok |-> FALSE, context |-> ctx, message |-> CircularReference(prompt_name)]
    ELSE [ok |-> TRUE,
          context |-> [visited_prompts |-> ctx.visited_prompts \cup {prompt_name},
                       current_depth |-> ctx.current_depth + 1],
          message |-> <<>>]

\* enter_prompt without the check of the depth
enter_prompt_without_depth_check(ctx, prompt_name) ==
    IF prompt_name \in ctx.visited_prompts
    THEN [ok |-> FALSE, context |-> ctx, message |-> CircularReference(prompt_name)]
    ELSE [ok |-> TRUE,
          context |-> [visited_prompts |-> ctx.visited_prompts \cup {prompt_name},
                       current_depth |-> ctx.current_depth + 1],
          message |-> <<>>]

\* enter_prompt that lets every reference in
enter_prompt_unchecked(ctx, prompt_name) ==
    [ok |-> TRUE,
     context |-> [visited_prompts |-> ctx.visited_prompts \cup {prompt_name},
                  current_depth |-> ctx.current_depth + 1],
     message |-> <<>>]

\* RenderValidationContext::enter_prompt
enter_prompt(ctx, prompt_name) ==
    IF prompt_name \in ctx.visited_prompts
    THEN [ok |-> FALSE, context |-> ctx, message |-> CircularReference(prompt_name)]
    ELSE IF ctx.current_depth >= MAX_NESTING_DEPTH
    THEN [ok |-> FALSE, context |-> ctx, message |-> MaxDepthExceeded]
    ELSE [ok |-> TRUE,
          context |-> [visited_prompts |-> ctx.visited_prompts \cup {prompt_name},
                       current_depth |-> ctx.current_depth + 1],
          message |-> <<>>]

\* exit_prompt that removes the name and leaves the depth
exit_prompt_without_decrement(ctx, prompt_name) ==
    [visited_prompts |-> ctx.visited_prompts \ {prompt_name},
     current_depth |-> ctx.current_depth]

\* RenderValidationContext::exit_prompt. `current_depth -= 1` on a usize 0
\* panics (overflow checks on) or wraps (off): both are written -1 here.
exit_prompt(ctx, prompt_name) ==
    [visited_prompts |-> ctx.visited_prompts \ {prompt_name},
     current_depth |-> IF ctx.current_depth = 0 THEN -1 ELSE ctx.current_depth - 1]

\* The end of render_prompt_reference after a successful render:
\* `if !is_variable_reference { context.exit_prompt(prompt_name); }`
ExitAfterSuccess(ctx, prompt_name, is_variable_reference) ==
    IF ~is_variable_reference THEN exit_prompt(ctx, prompt_name) ELSE ctx

(***************************************************************************)
(* Storage and PromptTemplate::new                                         *)
(***************************************************************************)
\* a storage that hands out an empty prompt for a name it does not hold
get_prompt_or_empty(prompts, name) ==
    [ok |-> TRUE,
     content |-> IF name \in DOMAIN prompts THEN prompts[name] ELSE <<>>,
     message |-> <<>>]

\* MockStorage::get_prompt
get_prompt(prompts, name) ==
    IF name \in DOMAIN prompts
    THEN [ok |-> TRUE, content |-> prompts[name], message |-> <<>>]
    ELSE [ok |-> FALSE, content |-> <<>>, message |-> PromptNotFound]

\* the match of PromptTemplate::new on parse_template's result
TemplateOf(r) ==
    IF r.ok THEN [ok |-> TRUE, parts |-> r.out, message |-> <<>>]
    ELSE [ok |-> FALSE, parts |-> <<>>, message |-> ParseTemplateError]

\* PromptTemplate::new
PromptTemplateNew(content) == TemplateOf(parse_template(content))

\* a lookup that hands back the key where the value is due
ArgumentsGet_key(args, name) ==
    IF name \in DOMAIN args THEN [some |-> TRUE, value |-> name]
    ELSE [some |-> FALSE, value |-> <<>>]

\* a lookup that falls back on the name itself when the key is absent
ArgumentsGet_or_name(args, name) ==
    IF name \in DOMAIN args THEN [some |-> TRUE, value |-> args[name]]
    ELSE [some |-> TRUE, value |-> name]

\* HashMap::get on the arguments map
ArgumentsGet(args, name) ==
    IF name \in DOMAIN args THEN [some |-> TRUE, value |-> args[name]]
    ELSE [some |-> FALSE, value |-> <<>>]

(***************************************************************************)
(* Contents, storages and argument maps the renders are run on.            *)
(***************************************************************************)
Arg(n) == OPEN \o n \o CLOSE

Ref(n) == OPEN \o PROMPT \o n \o CLOSE

VarRef(n) == OPEN \o PROMPT_VAR \o n \o CLOSE

Esc(t) == OPEN \o OPEN \o t \o CLOSE \o CLOSE

nMain == <<"m", "a", "i", "n">>

nX == <<"x">>

nY == <<"y">>

nShared == <<"s", "h", "a", "r", "e", "d">>

nA == <<"a">>

nB == <<"b">>

nGreeting == <<"g", "r", "e", "e", "t", "i", "n", "g">>

nBad == <<"b", "a", "d">>

nMissing == <<"m", "i", "s", "s", "i", "n", "g">>

nName == <<"n", "a", "m", "e">>

World == <<"W", "o", "r", "l", "d">>

\* the i-th prompt of a chain
P(i) == <<"p", DecimalDigits[i + 1]>>

PromptNames ==
    {nMain, nX, nY, nShared, nA, nB, nGreeting, nBad, nMissing}
        \cup {P(i) : i \in 1..MaxChain}

\* the argument whose value is the prompt name n
To(n) == <<"t", "o", "_">> \o n

Kinds == {"fixed", "variable"}

\* a reference to prompt n of the given kind
Edge(kind, n) == IF kind = "fixed" THEN Ref(n) ELSE VarRef(To(n))

FullArguments ==
    [k \in {To(n) : n \in PromptNames} \cup {nName} |->
        IF k = nName THEN World ELSE Drop(k, 3)]

Without(f, k) == [x \in DOMAIN f \ {k} |-> f[x]]

\* a value with `/` and `.` and an empty value where prompt names are expected
ParentPath == <<".", ".", "/", "x">>

OutsideArguments ==
    [FullArguments EXCEPT ![To(nGreeting)] = ParentPath, ![To(nX)] = <<>>]

ArgumentMaps ==
    { FullArguments,
      Without(FullArguments, nName),
      Without(FullArguments, To(nGreeting)),
      [k \in {nName} |-> World],
      OutsideArguments,
      <<>> }

GreetingContent == <<"H", "i", " ">> \o Arg(nName) \o <<"!">>

BaseStorage ==
    (nGreeting :> GreetingContent) @@ (nBad :> (OPEN \o nName))

DiamondStorage(kx, ky) ==
    (nMain :> (Ref(nX) \o Ref(nY)))
        @@ (nX :> (<<"X">> \o Edge(kx, nShared)))
        @@ (nY :> (<<"Y">> \o Edge(ky, nShared)))
        @@ (nShared :> <<"S">>)
        @@ BaseStorage

CycleStorage(ka, kb) ==
    (nA :> (<<"A", " ">> \o Edge(ka, nB)))
        @@ (nB :> (<<"B", " ">> \o Edge(kb, nA)))
        @@ BaseStorage

SelfStorage(ka) == (nA :> (<<"A", " ">> \o Edge(ka, nA))) @@ BaseStorage

\* p1 -> p2 -> ... -> pn, the reference out of p_i being of kind kinds[i];
\* the last prompt refers to `back` when back # <<>>
ChainStorage(n, kinds, back) ==
    [name \in {P(i) : i \in 1..n} |->
        LET i == CHOOSE j \in 1..n : P(j) = name
        IN  <<"L", DecimalDigits[i + 1]>> \o
            (IF i < n THEN Edge(kinds[i], P(i + 1))
             ELSE IF back # <<>> THEN Ref(back) ELSE <<>>)]
        @@ BaseStorage

\* four prompts without references
SiblingStorage ==
    [name \in {nA, nB, nX, nY} |-> <<Head(name)>>] @@ BaseStorage

Storages ==
    {DiamondStorage(kx, ky) : kx \in Kinds, ky \in Kinds}
        \cup {SiblingStorage}
        \cup {CycleStorage(ka, kb) : ka \in Kinds, kb \in Kinds}
        \cup {SelfStorage(ka) : ka \in Kinds}
        \cup UNION {{ChainStorage(n, kinds, <<>>) : kinds \in [1..(n - 1) -> Kinds]}
                        : n \in 1..MaxChain}
        \cup {ChainStorage(n, [i \in 1..(n - 1) |-> "fixed"], P(1)) : n \in 1..MaxChain}
        \cup {ChainStorage(n, [i \in 1..(n - 1) |-> "fixed"], nGreeting)
                  : n \in 1..MaxChain}

HeyContent == <<"H", "e", "y", " ">> \o Arg(nName) \o <<",">>

MessageContent == <<"M", ":", " ">> \o VarRef(To(nGreeting))

ArgumentThenMissing == Arg(nName) \o Ref(nMissing)

FourSiblings ==
    VarRef(To(nA)) \o VarRef(To(nB)) \o VarRef(To(nX)) \o VarRef(To(nY))

MissingThenArgument == Ref(nMissing) \o Arg(nName)

EscapedTexts ==
    { <<"x">>, Arg(nName), Ref(nGreeting), VarRef(To(nGreeting)),
      Arg(nName) \o <<"!">>, <<"a", "}">>, <<"{", "n", "}">>, OPEN \o nName, <<>> }

\* contents a caller builds a top-level template from, besides the stored ones
TopContents ==
    {Edge(k1, nX) \o Edge(k2, nY) : k1 \in Kinds, k2 \in Kinds}
        \cup {Edge(k, P(1)) : k \in Kinds}
        \cup {Edge(k, nMissing) : k \in Kinds}
        \cup {Esc(t) : t \in EscapedTexts}
        \cup { HeyContent,
               Ref(nGreeting) \o <<" ">> \o Arg(nName),
               Ref(nBad),
               MessageContent,
               VarRef(To(nGreeting)) \o VarRef(To(nGreeting)),
               VarRef(To(nGreeting)) \o Ref(nGreeting),
               Esc(Arg(nName)) \o Arg(nName),
               ArgumentThenMissing,
               MissingThenArgument,
               FourSiblings }

Range(f) == {f[x] : x \in DOMAIN f}

(***************************************************************************)
(* The renderer: PromptTemplate::render, render_internal and               *)
(* render_prompt_reference, one activation of render_internal per stack    *)
(* frame.                                                                  *)
(***************************************************************************)
\* a render_internal activation at its first part
NewFrame(parts) ==
    [parts |-> parts, i |-> 1, result |-> <<>>, pc |-> "loop",
     failed |-> FALSE, message |-> <<>>,
     target |-> <<>>, is_variable_reference |-> FALSE, pre |-> None]

Top == stack[Len(stack)]

Part == Top.parts[Top.i]

SetTop(f) == [stack EXCEPT ![Len(stack)] = f]

\* an error that is recorded while the loop goes on with the next part
Fail_and_continue(f, message) ==
    [f EXCEPT !.message = message, !.i = @ + 1, !.pc = "loop"]

Fail(f, message) == [f EXCEPT !.failed = TRUE, !.message = message, !.pc = "loop"]

Event(op, name) == [op |-> op, name |-> name]

AtPart(kind) ==
    /\ phase = "rendering"
    /\ stack # <<>>
    /\ Top.pc = "loop"
    /\ ~Top.failed
    /\ Top.i <= Len(Top.parts)
    /\ Part.kind = kind

Init ==
    /\ storage \in Storages
    /\ phase = "idle"
    /\ template = <<>>
    /\ arguments = <<>>
    /\ context = NewContext
    /\ stack = <<>>
    /\ outcome = None
    /\ lastEnter = None
    /\ lastReturn = None
    /\ log = <<>>
    /\ input = [text |-> <<>>, fragments |-> 0]
    /\ parsed = None
    /\ files = NoFiles
    /\ called = None

\* a render that goes on with the RenderValidationContext of the call before
RenderTemplate_reusing_context(content, args, new) ==
    /\ new.ok
    /\ phase' = "rendering"
    /\ template' = content
    /\ arguments' = args
    /\ context' = context
    /\ stack' = <<NewFrame(new.parts)>>
    /\ outcome' = None
    /\ lastEnter' = None
    /\ lastReturn' = None
    /\ log' = <<>>
    /\ UNCHANGED <<storage, input, parsed, files, called>>

\* PromptTemplate::render of a template PromptTemplate::new returned
RenderTemplate(content, args, new) ==
    /\ new.ok
    /\ phase' = "rendering"
    /\ template' = content
    /\ arguments' = args
    /\ context' = NewContext
    /\ stack' = <<NewFrame(new.parts)>>
    /\ outcome' = None
    /\ lastEnter' = None
    /\ lastReturn' = None
    /\ log' = <<>>
    /\ UNCHANGED <<storage, input, parsed, files, called>>

\* PromptTemplate::new(prompt) by the caller, then PromptTemplate::render
Render(content, args) ==
    /\ phase = "idle"
    /\ RenderTemplate(content, args, PromptTemplateNew(content))

\* PromptTemplatePart::Literal(text) => result.push_str(text)
RenderLiteral ==
    /\ AtPart("Literal")
    /\ stack' = SetTop([Top EXCEPT !.result = @ \o Part.text, !.i = @ + 1])
    /\ UNCHANGED <<storage, phase, template, arguments, context, outcome,
                   lastEnter, lastReturn, log, input, parsed, files, called>>

\* an Argument arm that hands the arguments to the top-level template only
RenderArgument_top_level_only ==
    /\ AtPart("Argument")
    /\ LET got == ArgumentsGet(IF Len(stack) > 1 THEN <<>> ELSE arguments, Part.text)
       IN  stack' = SetTop(IF got.some
                           THEN [Top EXCEPT !.result = @ \o got.value, !.i = @ + 1]
                           ELSE Fail(Top, MissingArgument(Part.text)))
    /\ log' = Append(log, Event("arguments.get", Part.text))
    /\ UNCHANGED <<storage, phase, template, arguments, context, outcome,
                   lastEnter, lastReturn, input, parsed, files, called>>

\* PromptTemplatePart::Argument(name) => match arguments.get(name)
RenderArgument ==
    /\ AtPart("Argument")
    /\ LET got == ArgumentsGet(arguments, Part.text)
       IN  stack' = SetTop(IF got.some
                           THEN [Top EXCEPT !.result = @ \o got.value, !.i = @ + 1]
                           ELSE Fail(Top, MissingArgument(Part.text)))
    /\ log' = Append(log, Event("arguments.get", Part.text))
    /\ UNCHANGED <<storage, phase, template, arguments, context, outcome,
                   lastEnter, lastReturn, input, parsed, files, called>>

\* render_prompt_reference going on to the fetch whatever enter_prompt returned
BeginReference_ignoring_enter(prompt_name, is_variable_reference, events) ==
    LET r == enter_prompt(context, prompt_name)
    IN  /\ context' = r.context
        /\ lastEnter' = [name |-> prompt_name, before |-> context,
                         after |-> r.context, ok |-> r.ok, message |-> r.message]
        /\ log' = log \o events \o <<Event("enter_prompt", prompt_name)>>
        /\ stack' = SetTop([Top EXCEPT !.pc = "entered",
                                       !.target = prompt_name,
                                       !.is_variable_reference = is_variable_reference,
                                       !.pre = context])

\* render_prompt_reference up to `context.enter_prompt(prompt_name)?`
BeginReference(prompt_name, is_variable_reference, events) ==
    LET r == enter_prompt(context, prompt_name)
    IN  /\ context' = r.context
        /\ lastEnter' = [name |-> prompt_name, before |-> context,
                         after |-> r.context, ok |-> r.ok, message |-> r.message]
        /\ log' = log \o events \o <<Event("enter_prompt", prompt_name)>>
        /\ stack' = SetTop(IF r.ok
                           THEN [Top EXCEPT !.pc = "entered",
                                            !.target = prompt_name,
                                            !.is_variable_reference = is_variable_reference,
                                            !.pre = context]
                           ELSE Fail(Top, r.message))

\* PromptTemplatePart::PromptReference(name) => render_prompt_reference(name, .., false)?
RenderPromptReference ==
    /\ AtPart("PromptReference")
    /\ BeginReference(Part.text, FALSE, <<>>)
    /\ UNCHANGED <<storage, phase, template, arguments, outcome, lastReturn,
                   input, parsed, files, called>>

\* PromptTemplatePart::VariablePromptReference(name) => match arguments.get(name)
RenderVariablePromptReference ==
    /\ AtPart("VariablePromptReference")
    /\ LET got == ArgumentsGet(arguments, Part.text)
       IN  IF got.some
           THEN BeginReference(got.value, TRUE, <<Event("arguments.get", Part.text)>>)
           ELSE /\ stack' = SetTop(Fail(Top, MissingArgument(Part.text)))
                /\ log' = Append(log, Event("arguments.get", Part.text))
                /\ UNCHANGED <<context, lastEnter>>
    /\ UNCHANGED <<storage, phase, template, arguments, outcome, lastReturn,
                   input, parsed, files, called>>

\* render_prompt_reference's match on PromptTemplate::new(prompt): the error
\* arm exits and returns "Error parsing ..", the Ok arm calls render_internal
ResolveFetched(new, left, returned) ==
    /\ log' = log \o <<Event("get_prompt", Top.target),
                       Event("PromptTemplate::new", Top.target)>>
    /\ IF ~new.ok
       THEN /\ context' = left
            /\ stack' = SetTop(Fail(Top, ErrorParsing(Top.target, new.message)))
            /\ lastReturn' = returned
       ELSE /\ stack' = Append(SetTop([Top EXCEPT !.pc = "rendering"]),
                               NewFrame(new.parts))
            /\ UNCHANGED <<context, lastReturn>>

\* render_prompt_reference's match on storage.get_prompt(prompt_name): the
\* error arm exits and returns "Error retrieving .."
Resolve(got, left, returned) ==
    IF ~got.ok
    THEN /\ context' = left
         /\ stack' = SetTop(Fail(Top, ErrorRetrieving(Top.target, got.message)))
         /\ lastReturn' = returned
         /\ log' = Append(log, Event("get_prompt", Top.target))
    ELSE ResolveFetched(PromptTemplateNew(got.content), left, returned)

\* render_prompt_reference after the enter: storage.get_prompt(prompt_name),
\* PromptTemplate::new(prompt), and the call of template.render_internal
ResolveReference ==
    /\ phase = "rendering"
    /\ stack # <<>>
    /\ Top.pc = "entered"
    /\ Resolve(get_prompt(storage, Top.target),
               exit_prompt(context, Top.target),
               [target |-> Top.target,
                is_variable_reference |-> Top.is_variable_reference,
                ok |-> FALSE, before |-> Top.pre,
                after |-> exit_prompt(context, Top.target)])
    /\ UNCHANGED <<storage, phase, template, arguments, outcome, lastEnter,
                   input, parsed, files, called>>

\* render_internal of the referenced prompt returned Ok(rendered):
\* result.push_str(&rendered), the exit of a fixed reference, Ok(())
ReturnRendered ==
    /\ phase = "rendering"
    /\ Len(stack) > 1
    /\ ~Top.failed
    /\ Top.pc = "loop"
    /\ Top.i > Len(Top.parts)
    /\ LET caller == stack[Len(stack) - 1]
           left == ExitAfterSuccess(context, caller.target, caller.is_variable_reference)
       IN  /\ context' = left
           /\ stack' = Append(SubSeq(stack, 1, Len(stack) - 2),
                              [caller EXCEPT !.result = @ \o Top.result,
                                             !.pc = "loop", !.i = @ + 1])
           /\ lastReturn' = [target |-> caller.target,
                             is_variable_reference |-> caller.is_variable_reference,
                             ok |-> TRUE, before |-> caller.pre, after |-> left]
    /\ UNCHANGED <<storage, phase, template, arguments, outcome, lastEnter, log,
                   input, parsed, files, called>>

\* render_internal of the referenced prompt returned Err(e):
\* context.exit_prompt(prompt_name) and the wrapped error
ReturnFailed ==
    /\ phase = "rendering"
    /\ Len(stack) > 1
    /\ Top.failed
    /\ LET caller == stack[Len(stack) - 1]
           left == exit_prompt(context, caller.target)
       IN  /\ context' = left
           /\ stack' = Append(SubSeq(stack, 1, Len(stack) - 2),
                              Fail(caller, FailedToRender(caller.target, Top.message)))
           /\ lastReturn' = [target |-> caller.target,
                             is_variable_reference |-> caller.is_variable_reference,
                             ok |-> FALSE, before |-> caller.pre, after |-> left]
    /\ UNCHANGED <<storage, phase, template, arguments, outcome, lastEnter, log,
                   input, parsed, files, called>>

\* the top-level render_internal returns and render() hands its result on;
\* the finished top-level activation stays visible until the caller moves on
Finish ==
    /\ phase = "rendering"
    /\ Len(stack) = 1
    /\ Top.pc = "loop"
    /\ Top.failed \/ Top.i > Len(Top.parts)
    /\ outcome' = [ok |-> ~Top.failed,
                   value |-> IF Top.failed THEN <<>> ELSE Top.result,
                   message |-> Top.message]
    /\ phase' = "returned"
    /\ UNCHANGED <<storage, template, arguments, context, stack, lastEnter,
                   lastReturn, log, input, parsed, files, called>>

\* the caller is done with the result. `context` keeps what the finished
\* call left in its RenderValidationContext: the next render() is to build
\* its own.
Forget ==
    /\ phase = "returned"
    /\ phase' = "idle"
    /\ template' = <<>>
    /\ arguments' = <<>>
    /\ stack' = <<>>
    /\ outcome' = None
    /\ lastEnter' = None
    /\ lastReturn' = None
    /\ log' = <<>>
    /\ UNCHANGED <<storage, context, input, parsed, files, called>>

Next ==
    \/ \E content \in TopContents \cup Range(storage), args \in ArgumentMaps :
           Render(content, args)
    \/ RenderLiteral
    \/ RenderArgument
    \/ RenderPromptReference
    \/ RenderVariablePromptReference
    \/ ResolveReference
    \/ ReturnRendered
    \/ ReturnFailed
    \/ Finish
    \/ Forget

Spec == Init /\ [][Next]_vars

\* what a call of render does between its start and its return
RenderStep ==
    \/ RenderLiteral
    \/ RenderArgument
    \/ RenderPromptReference
    \/ RenderVariablePromptReference
    \/ ResolveReference
    \/ ReturnRendered
    \/ ReturnFailed
    \/ Finish

\* one call of render, from its start to its return
OneRender ==
    \/ \E content \in TopContents \cup Range(storage), args \in ArgumentMaps :
           Render(content, args)
    \/ RenderStep

\* the steps of render other than ResolveReference
LoopStep ==
    \/ RenderLiteral
    \/ RenderArgument
    \/ RenderPromptReference
    \/ RenderVariablePromptReference
    \/ ReturnRendered
    \/ ReturnFailed
    \/ Finish

\* ResolveReference can be taken: render_prompt_reference is past its enter
Entered == phase = "rendering" /\ stack # <<>> /\ Top.pc = "entered"

\* render is sequential code without waiting: a call that has started goes
\* on until it returns.  The last conjunct is WF_vars(ResolveReference)
\* written out with Entered, the condition under which ResolveReference can
\* be taken.
FairSpec ==
    /\ Init
    /\ [][OneRender]_vars
    /\ WF_vars(LoopStep)
    /\ ([]<>(~Entered) \/ []<><<ResolveReference>>_vars)

(***************************************************************************)
(* FileStorage: prompts kept as <name>.md files under base_path.  files    *)
(* is the base path, "missing", a directory ("dir") or a regular file      *)
(* ("file"), with the files under it, path |-> file text.  The front       *)
(* matter of a file is kept as the metadata the library writes into it,    *)
(* the text after the front matter as the characters of the file.          *)
(***************************************************************************)
Some(value) == [none |-> FALSE, value |-> value]

\* PromptMetadata::new
PromptMetadata_new(name, description, tags) ==
    [name |-> name, description |-> description, tags |-> tags]

\* Prompt::new
Prompt_new(metadata, content) == [metadata |-> metadata, content |-> content]

\* the names, descriptions, tag lists and contents of the prompts saved
StoredNames == {<<"a">>, <<"b">>}

Descriptions == {None, Some(<<"d">>)}

TagLists == {<<>>, <<"x", "y">>, <<"y", "x">>}

Contents ==
    {<<"H", "i">>, <<" ", "H", "i">>, <<"\n", "H", "i">>, OPEN \o <<"n">>,
     <<" ">> \o OPEN \o <<"n">>}

Prompts ==
    {Prompt_new(PromptMetadata_new(n, d, t), c) :
        n \in StoredNames, d \in Descriptions, t \in TagLists, c \in Contents}

\* the display of base_path
BasePath == <<"p">>

\* self.base_path.join(format!("{}.md", name))
file_path(name) == BasePath \o <<"/">> \o name \o <<".", "m", "d">>

\* Result<_, FileStorageError>
StorageOk(value) == [ok |-> TRUE, value |-> value, error |-> None]

StorageErr(error) == [ok |-> FALSE, value |-> None, error |-> error]

\* FileStorageError::InvalidBasePath(path)
InvalidBasePath(path) == [kind |-> "InvalidBasePath", path |-> path]

\* FileStorageError::PromptNotFound(path)
FilePromptNotFound(path) == [kind |-> "PromptNotFound", path |-> path]

\* char::is_whitespace, for the characters of Contents
WhiteSpace == {" ", "\n", "\t"}

\* str::trim_start
RECURSIVE trim_start(_)
trim_start(s) ==
    IF s # <<>> /\ Head(s) \in WhiteSpace THEN trim_start(Tail(s)) ELSE s

\* What serde_frontmatter puts between the end of the front matter and the
\* content is the library's: nothing, or a line break.
Separators == {<<>>, <<"\n">>}

\* serde_frontmatter::serialize
serialize(metadata, content, separator) ==
    [front_matter |-> metadata, rest |-> separator \o content]

\* a file whose text has no front matter, as `invalid content [[[`
WithoutFrontMatter(text) == [front_matter |-> None, rest |-> text]

\* serde_frontmatter::deserialize: the metadata of the front matter and the
\* text after it, an error for a text without front matter
deserialize(file) ==
    IF file.front_matter = None
    THEN [ok |-> FALSE, metadata |-> None, raw_content |-> <<>>]
    ELSE [ok |-> TRUE, metadata |-> file.front_matter, raw_content |-> file.rest]

\* Path::exists of a path under base_path
Exists(fs, path) == fs.base = "dir" /\ path \in DOMAIN fs.entries

\* fs::write
Write(fs, path, data) ==
    [base |-> fs.base,
     entries |-> [q \in DOMAIN fs.entries \cup {path} |->
                     IF q = path THEN data ELSE fs.entries[q]]]

\* fs::remove_file
RemoveFile(fs, path) ==
    [base |-> fs.base,
     entries |-> [q \in DOMAIN fs.entries \ {path} |-> fs.entries[q]]]

\* FileStorage::ensure_base_directory_exists
ensure_base_directory_exists(fs) ==
    IF fs.base = "missing"
    THEN [result |-> StorageOk(None), files |-> [fs EXCEPT !.base = "dir"]]
    ELSE IF fs.base # "dir"
    THEN [result |-> StorageErr(InvalidBasePath(BasePath)), files |-> fs]
    ELSE [result |-> StorageOk(None), files |-> fs]

\* FileStorage::save_prompt, after ensure_base_directory_exists returned e
SaveChecked(e, prompt, separator) ==
    IF ~e.result.ok THEN e
    ELSE [result |-> StorageOk(None),
          files |-> Write(e.files, file_path(prompt.metadata.name),
                          serialize(prompt.metadata, prompt.content, separator))]

\* FileStorage::save_prompt
FileStorage_save_prompt(fs, prompt, separator) ==
    SaveChecked(ensure_base_directory_exists(fs), prompt, separator)

\* FileStorageError::SerializationError(_)
SerializationError == [kind |-> "SerializationError", path |-> <<>>]

\* FileStorage::get_prompt, once the file read was deserialized to d:
\* `deserialize(..)?`, trim_start, Prompt::new
Loaded(d) ==
    IF ~d.ok THEN StorageErr(SerializationError)
    ELSE StorageOk(Prompt_new(d.metadata, trim_start(d.raw_content)))

\* FileStorage::get_prompt handing out an empty prompt for a missing file
FileStorage_get_prompt_or_default(fs, name) ==
    IF ~Exists(fs, file_path(name))
    THEN StorageOk(Prompt_new(PromptMetadata_new(name, None, <<>>), <<>>))
    ELSE Loaded(deserialize(fs.entries[file_path(name)]))

\* FileStorage::get_prompt
FileStorage_get_prompt(fs, name) ==
    IF ~Exists(fs, file_path(name))
    THEN StorageErr(FilePromptNotFound(file_path(name)))
    ELSE Loaded(deserialize(fs.entries[file_path(name)]))

\* FileStorage::get_md_files: the .md files WalkDir finds under base_path;
\* a base_path that is missing or a regular file yields none
get_md_files(fs) == IF fs.base = "dir" THEN DOMAIN fs.entries ELSE {}

\* the orders in which a walk of the directory can yield the files
WalkOrders(paths) ==
    {walk \in [1..Cardinality(paths) -> paths] : Range(walk) = paths}

\* FileStorage::get_prompts, the walk yielding the files in the order walk
FileStorage_get_prompts(fs, walk) ==
    IF \E i \in DOMAIN walk : ~Loaded(deserialize(fs.entries[walk[i]])).ok
    THEN StorageErr(SerializationError)
    ELSE StorageOk([i \in DOMAIN walk |->
                       Loaded(deserialize(fs.entries[walk[i]])).value])

\* FileStorage::delete_prompt answering Ok for a file that is not there
FileStorage_delete_prompt_quiet(fs, name) ==
    IF ~Exists(fs, file_path(name))
    THEN [result |-> StorageOk(None), files |-> fs]
    ELSE [result |-> StorageOk(None), files |-> RemoveFile(fs, file_path(name))]

\* FileStorage::delete_prompt
FileStorage_delete_prompt(fs, name) ==
    IF ~Exists(fs, file_path(name))
    THEN [result |-> StorageErr(FilePromptNotFound(file_path(name))), files |-> fs]
    ELSE [result |-> StorageOk(None), files |-> RemoveFile(fs, file_path(name))]

\* a call of the storage, as the caller saw it
Call(op, name, prompt, result) ==
    [op |-> op, name |-> name, prompt |-> prompt, result |-> result]

StorageInit ==
    /\ storage = <<>>
    /\ phase = "idle"
    /\ template = <<>>
    /\ arguments = <<>>
    /\ context = None
    /\ stack = <<>>
    /\ outcome = None
    /\ lastEnter = None
    /\ lastReturn = None
    /\ log = <<>>
    /\ input = [text |-> <<>>, fragments |-> 0]
    /\ parsed = None
    /\ files \in {[base |-> b, entries |-> NoEntries] : b \in {"missing", "dir", "file"}}
    /\ called = None

\* storage.save_prompt(&prompt)
SavePrompt(prompt, separator) ==
    /\ files' = FileStorage_save_prompt(files, prompt, separator).files
    /\ called' = Call("save_prompt", prompt.metadata.name, prompt,
                      FileStorage_save_prompt(files, prompt, separator).result)
    /\ UNCHANGED <<renderVars, parseVars>>

\* storage.get_prompt(name)
GetPrompt(name) ==
    /\ called' = Call("get_prompt", name, None, FileStorage_get_prompt(files, name))
    /\ UNCHANGED <<renderVars, parseVars, files>>

\* storage.delete_prompt(name)
DeletePrompt(name) ==
    /\ files' = FileStorage_delete_prompt(files, name).files
    /\ called' = Call("delete_prompt", name, None,
                      FileStorage_delete_prompt(files, name).result)
    /\ UNCHANGED <<renderVars, parseVars>>

\* storage.get_prompts()
GetPrompts(walk) ==
    /\ called' = Call("get_prompts", <<>>, None, FileStorage_get_prompts(files, walk))
    /\ UNCHANGED <<renderVars, parseVars, files>>

StorageNext ==
    \/ \E prompt \in Prompts, separator \in Separators : SavePrompt(prompt, separator)
    \/ \E name \in StoredNames : GetPrompt(name)
    \/ \E walk \in WalkOrders(get_md_files(files)) : GetPrompts(walk)
    \/ \E name \in StoredNames : DeletePrompt(name)

StorageSpec == StorageInit /\ [][StorageNext]_vars

(***************************************************************************)
(* The command line: Commands::Add over the FileStorage of the             *)
(* configuration.  Files without front matter come into the directory by  *)
(* other hands than save_prompt, as fs::write puts them there in the       *)
(* tests.                                                                  *)
(***************************************************************************)
\* format!("Prompt '{}' already exists", name)
AlreadyExists(name) ==
    [kind |-> "AlreadyExists",
     path |-> <<"Prompt '">> \o name \o <<"' already exists">>]

\* the text `invalid content [[[` of the tests
InvalidContent == <<"[", "[", "[">>

\* the contents given to --content
AddContents == {<<"H", "i">>, <<"H", "o">>}

\* the file at path, if there is one
FileAt(fs, path) == IF Exists(fs, path) THEN Some(fs.entries[path]) ELSE None

\* Commands::Add after storage.get_prompt(&name) returned found
AddChecked(found, fs, prompt, overwrite, separator) ==
    IF found.ok /\ ~overwrite
    THEN [result |-> StorageErr(AlreadyExists(prompt.metadata.name)), files |-> fs]
    ELSE FileStorage_save_prompt(fs, prompt, separator)

\* main: Commands::Add { name, description, tags, content, overwrite }
CommandsAdd(fs, prompt, overwrite, separator) ==
    AddChecked(FileStorage_get_prompt(fs, prompt.metadata.name),
               fs, prompt, overwrite, separator)

\* pren add --name .. --content .. [--overwrite]
Add(prompt, overwrite, separator) ==
    /\ files' = CommandsAdd(files, prompt, overwrite, separator).files
    /\ called' = [op |-> "add",
                  name |-> prompt.metadata.name,
                  prompt |-> prompt,
                  overwrite |-> overwrite,
                  before |-> FileAt(files, file_path(prompt.metadata.name)),
                  result |-> CommandsAdd(files, prompt, overwrite, separator).result]
    /\ UNCHANGED <<renderVars, parseVars>>

\* fs::write(file_path, "invalid content [[[") into the directory
WriteInvalidFile(name) ==
    /\ files.base = "dir"
    /\ files' = Write(files, file_path(name), WithoutFrontMatter(InvalidContent))
    /\ called' = [op |-> "write", name |-> name]
    /\ UNCHANGED <<renderVars, parseVars>>

CliNext ==
    \/ \E name \in StoredNames, content \in AddContents,
          overwrite \in BOOLEAN, separator \in Separators :
           Add(Prompt_new(PromptMetadata_new(name, None, <<"x", "y">>), content),
               overwrite, separator)
    \/ \E name \in StoredNames : WriteInvalidFile(name)

CliSpec == StorageInit /\ [][CliNext]_vars

(***************************************************************************)
(* Properties of the renderer, checked under Spec.                         *)
(***************************************************************************)
Returned == phase = "returned"

\* the innermost cause of a failure message
Cause(message) == message[Len(message)]

\* C1: every reference resolution that got past its enter, through a
\* PromptReference or a VariablePromptReference, successful or failed, leaves
\* visited_prompts and current_depth as they were before that enter.
C1_ContextRestoredOnReturn ==
    lastReturn # None => lastReturn.after = lastReturn.before

\* a variable reference has been resolved successfully and has returned
C1_VariableReferenceReturned ==
    /\ lastReturn # None
    /\ lastReturn.is_variable_reference
    /\ lastReturn.ok

DiamondTop(k1, k2) == Edge(k1, nX) \o Edge(k2, nY)

\* C2: diamond references are legal: main refers to x and y, x and y each
\* refer to shared; rendering main succeeds and the text of shared appears
\* once in each branch's output.
C2_DiamondRenders ==
    \A kx \in Kinds, ky \in Kinds, k1 \in Kinds, k2 \in Kinds :
        ( /\ Returned
          /\ storage = DiamondStorage(kx, ky)
          /\ template = DiamondTop(k1, k2)
          /\ arguments = FullArguments )
        => /\ outcome.ok
           /\ outcome.value = <<"X", "S", "Y", "S">>

\* the diamond built of fixed references only has been rendered
C2_FixedDiamondRendered ==
    /\ Returned
    /\ storage = DiamondStorage("fixed", "fixed")
    /\ template = storage[nMain]
    /\ outcome.ok
    /\ outcome.value = <<"X", "S", "Y", "S">>

CycleStorages ==
    {CycleStorage(ka, kb) : ka \in Kinds, kb \in Kinds}
        \cup {SelfStorage(ka) : ka \in Kinds}

\* a render of one of the prompts of a reference cycle, with the arguments
\* that make its variable references close the cycle
RenderingCycle ==
    /\ phase \in {"rendering", "returned"}
    /\ storage \in CycleStorages
    /\ template \in {storage[n] : n \in {nA, nB} \cap DOMAIN storage}
    /\ {To(nA), To(nB)} \subseteq DOMAIN arguments

\* C3: with a referring to b and b to a, by fixed or by variable references,
\* rendering either fails with CircularReference; the render never succeeds
\* and the recursion stops (never more than the top level and two nested
\* activations).
C3_CycleDetected ==
    RenderingCycle =>
        /\ Len(stack) <= 3
        /\ Returned => /\ ~outcome.ok
                       /\ Cause(outcome.message).fmt = CircularFormat

\* a cycle closed by variable references has been rendered to its failure
C3_VariableCycleFailed ==
    /\ Returned
    /\ storage = CycleStorage("variable", "variable")
    /\ template = storage[nB]
    /\ arguments = FullArguments
    /\ ~outcome.ok

\* the text a chain of n prompts renders to
RECURSIVE ChainOutput(_)
ChainOutput(n) ==
    IF n = 0 THEN <<>> ELSE ChainOutput(n - 1) \o <<"L", DecimalDigits[n + 1]>>

\* a render of top -> p1 -> .. -> pn has returned
ChainRendered(n, kinds) ==
    /\ Returned
    /\ storage = ChainStorage(n, kinds, <<>>)
    /\ template \in {Edge(k, P(1)) : k \in Kinds}
    /\ arguments = FullArguments

\* C4: a chain nesting up to 3 deep (top -> p1 -> p2 -> p3) renders; every
\* chain nesting 4 or more deep fails with MaxDepthExceeded, whatever
\* mixture of fixed and variable references forms it.
C4_DepthEnforced ==
    \A n \in 1..MaxChain :
        \A kinds \in [1..(n - 1) -> Kinds] :
            ChainRendered(n, kinds) =>
                IF n <= MAX_NESTING_DEPTH
                THEN /\ outcome.ok
                     /\ outcome.value = ChainOutput(n)
                ELSE /\ ~outcome.ok
                     /\ Cause(outcome.message) =
                            Segment("Maximum nesting depth of {} exceeded", <<"3">>)

\* a chain of exactly 3 nested references of mixed kinds has rendered
C4_ThreeDeepRendered ==
    /\ ChainRendered(3, <<"variable", "fixed">>)
    /\ template = Edge("variable", P(1))
    /\ outcome.ok

\* C5: enter checks the visited set first (CircularReference even at depth
\* 3), the depth second (MaxDepthExceeded only for a target not visited);
\* a failed enter changes nothing, a successful one inserts the target and
\* adds exactly 1 to the depth.
C5_EnterOrder ==
    lastEnter # None =>
        IF lastEnter.name \in lastEnter.before.visited_prompts
        THEN /\ ~lastEnter.ok
             /\ lastEnter.message = CircularReference(lastEnter.name)
             /\ lastEnter.after = lastEnter.before
        ELSE IF lastEnter.before.current_depth >= 3
        THEN /\ ~lastEnter.ok
             /\ lastEnter.message = MaxDepthExceeded
             /\ lastEnter.after = lastEnter.before
        ELSE /\ lastEnter.ok
             /\ lastEnter.after.visited_prompts =
                    lastEnter.before.visited_prompts \cup {lastEnter.name}
             /\ lastEnter.after.current_depth = lastEnter.before.current_depth + 1

\* enter was called for a visited target with the depth already at 3
C5_VisitedAtFullDepth ==
    /\ lastEnter # None
    /\ lastEnter.name \in lastEnter.before.visited_prompts
    /\ lastEnter.before.current_depth = 3
    /\ ~lastEnter.ok

MissingArgumentMessage(name) == <<Segment("Missing argument: {}", name)>>

\* an Argument(name) part is replaced by the value mapped to name, and its
\* absence fails the activation with MissingArgument(name)
C6_ArgumentStep ==
    AtPart("Argument") =>
        IF Part.text \in DOMAIN arguments
        THEN /\ ~Top'.failed
             /\ Top'.i = Top.i + 1
             /\ Top'.result = Top.result \o arguments[Part.text]
        ELSE /\ Top'.failed
             /\ Top'.message = MissingArgumentMessage(Part.text)

\* a top-level template that failed at an Argument part returns exactly
\* 'Missing argument: <name>'
C6_TopLevelUnwrapped ==
    (Returned /\ Top.failed /\ Top.parts[Top.i].kind = "Argument") =>
        /\ ~outcome.ok
        /\ outcome.message = MissingArgumentMessage(Top.parts[Top.i].text)

\* "Hey {{name}}," with and without name, whatever else is supplied
C6_HeyRendered ==
    (Returned /\ template = HeyContent) =>
        IF nName \in DOMAIN arguments
        THEN /\ outcome.ok
             /\ outcome.value = <<"H", "e", "y", " ">> \o arguments[nName] \o <<",">>
        ELSE /\ ~outcome.ok
             /\ outcome.message = MissingArgumentMessage(nName)

\* C6: every Argument(name) part is replaced by exactly the value mapped to
\* name (unused arguments are ignored); an absent name fails the render with
\* MissingArgument(name), and for a part of the top-level template the
\* message is exactly 'Missing argument: <name>'.
C6_ArgumentSubstitution ==
    /\ [][C6_ArgumentStep]_vars
    /\ [](C6_TopLevelUnwrapped /\ C6_HeyRendered)

\* "Hey {{name}}," has rendered with many unused arguments supplied
C6_RenderedWithExtraArguments ==
    /\ Returned
    /\ template = HeyContent
    /\ arguments = FullArguments
    /\ outcome.ok
    /\ outcome.value = <<"H", "e", "y", " ">> \o World \o <<",">>

\* a VariablePromptReference(name) part resolves the prompt named by the
\* argument's value; an absent name fails with MissingArgument(name) before
\* any enter
C7_VariableStep ==
    AtPart("VariablePromptReference") =>
        IF Part.text \in DOMAIN arguments
        THEN /\ lastEnter'.name = arguments[Part.text]
             /\ lastEnter'.ok => /\ Top'.pc = "entered"
                                 /\ Top'.target = arguments[Part.text]
        ELSE /\ Top'.failed
             /\ Top'.message = MissingArgumentMessage(Part.text)
             /\ context' = context
             /\ lastEnter' = lastEnter
             /\ log' = Append(log, Event("arguments.get", Part.text))

\* the text a resolved reference rendered is appended to the caller's result
C7_AppendStep ==
    ( /\ phase = "rendering"
      /\ Len(stack) > 1
      /\ Top.pc = "loop"
      /\ ~Top.failed
      /\ Top.i > Len(Top.parts) ) =>
        /\ Len(stack') = Len(stack) - 1
        /\ Top'.result = stack[Len(stack) - 1].result \o Top.result

\* every nested activation renders the stored content of its caller's target
C7_RendersTarget ==
    \A k \in 1..(Len(stack) - 1) :
        /\ stack[k].pc = "rendering"
        /\ stack[k].target \in DOMAIN storage
        /\ stack[k + 1].parts = parse_template(storage[stack[k].target]).out

\* "M: {{prompt_var:to_greeting}}" with and without its argument
C7_MessageRendered ==
    (Returned /\ template = MessageContent) =>
        IF To(nGreeting) \notin DOMAIN arguments
        THEN /\ ~outcome.ok
             /\ outcome.message = MissingArgumentMessage(To(nGreeting))
             /\ context = NewContext
             /\ lastEnter = None
        ELSE (nName \in DOMAIN arguments /\ arguments[To(nGreeting)] = nGreeting) =>
                /\ outcome.ok
                /\ outcome.value = <<"M", ":", " ", "H", "i", " ">>
                                       \o arguments[nName] \o <<"!">>

\* C7: VariablePromptReference(name) looks name up in the arguments and
\* renders the stored prompt whose name is that argument's value, appending
\* its rendered text; an absent name fails with MissingArgument(name), no
\* enter is performed and the validation context is unchanged.
C7_VariableReference ==
    /\ [][C7_VariableStep /\ C7_AppendStep]_vars
    /\ [](C7_RendersTarget /\ C7_MessageRendered)

\* a variable reference rendered the prompt its argument names
C7_VariableReferenceRendered ==
    /\ Returned
    /\ template = MessageContent
    /\ arguments = FullArguments
    /\ outcome.ok
    /\ outcome.value = <<"M", ":", " ", "H", "i", " ">> \o World \o <<"!">>

\* C8: the text inside an escaped literal `{{{{TEXT}}}}` is rendered exactly
\* as TEXT, whatever the arguments and the storage; nothing is looked up or
\* resolved inside it, also when TEXT reads `{{name}}` and name is supplied.
C8_EscapedLiteralVerbatim ==
    /\ \A t \in EscapedTexts :
           (Returned /\ template = Esc(t)) =>
               /\ outcome.ok
               /\ outcome.value = t
               /\ log = <<>>
               /\ lastEnter = None
    /\ (Returned /\ template = Esc(Arg(nName)) \o Arg(nName)
            /\ nName \in DOMAIN arguments) =>
           /\ outcome.ok
           /\ outcome.value = Arg(nName) \o arguments[nName]

\* `{{{{{{name}}}}}}` has rendered to `{{name}}` with name supplied
C8_EscapedArgumentRendered ==
    /\ Returned
    /\ template = Esc(Arg(nName))
    /\ nName \in DOMAIN arguments
    /\ outcome.ok
    /\ outcome.value = Arg(nName)

\* a reference that has entered its target fails, when the target is not
\* stored or its content does not parse, with the wrapper naming the target
\* around the storage's or the parser's error
C14_ResolveStep ==
    (phase = "rendering" /\ stack # <<>> /\ Top.pc = "entered") =>
        IF Top.target \notin DOMAIN storage
        THEN /\ Top'.failed
             /\ Top'.message = ErrorRetrieving(Top.target, PromptNotFound)
        ELSE ~parse_template(storage[Top.target]).ok =>
                 /\ Top'.failed
                 /\ Top'.message = ErrorParsing(Top.target, ParseTemplateError)

\* top-level references to a prompt that is not stored and to a stored
\* prompt whose content does not parse
C14_TopLevelReferences ==
    /\ \A k \in Kinds :
           ( /\ Returned
             /\ template = Edge(k, nMissing)
             /\ (k = "variable" => To(nMissing) \in DOMAIN arguments) )
           => /\ ~outcome.ok
              /\ outcome.message = ErrorRetrieving(nMissing, PromptNotFound)
    /\ (Returned /\ template = Ref(nBad)) =>
           /\ ~outcome.ok
           /\ outcome.message = ErrorParsing(nBad, ParseTemplateError)

\* C14: a reference whose target cannot be fetched from storage, or whose
\* fetched content fails to parse, makes the render fail with an error that
\* names the target prompt and carries the storage or parse error text, for
\* fixed references and for variable references alike.
C14_UnresolvableReference ==
    /\ [][C14_ResolveStep]_vars
    /\ []C14_TopLevelReferences

\* a variable reference whose argument names a missing prompt has failed
C14_MissingVariableTargetFailed ==
    /\ Returned
    /\ template = VarRef(To(nMissing))
    /\ ~outcome.ok
    /\ outcome.message = ErrorRetrieving(nMissing, PromptNotFound)

Rendering == phase = "rendering" /\ stack # <<>>

\* only the innermost activation runs: every activation below it waits in
\* render_prompt_reference and has not failed
C15_OnlyInnermostRuns ==
    \A k \in 1..(Len(stack) - 1) :
        ~stack[k].failed /\ stack[k].pc = "rendering"

\* within one activation the parts are taken in order, one at a time, and a
\* part's evaluation starts with the lookup or the enter of that very part
C15_InOrderStep ==
    (Rendering /\ phase' = "rendering") =>
        /\ \A k \in 1..Len(stack) :
               k <= Len(stack') =>
                   /\ stack'[k].parts = stack[k].parts
                   /\ stack'[k].i \in {stack[k].i, stack[k].i + 1}
                   /\ k < Len(stack) - 1 => stack'[k] = stack[k]
        /\ Len(stack') > Len(stack) =>
               /\ Len(stack') = Len(stack) + 1
               /\ stack'[Len(stack')].i = 1
               /\ stack'[Len(stack')].result = <<>>
        /\ SubSeq(log', 1, Len(log)) = log
        /\ (AtPart("Argument") \/ AtPart("PromptReference")
                \/ AtPart("VariablePromptReference")) =>
               /\ Len(log') > Len(log)
               /\ log'[Len(log) + 1].name = Part.text

\* after the first failure nothing more is evaluated: no lookup, enter or
\* fetch happens, the failure is handed up with its cause kept, and the
\* render returns it without an output string
C15_StopStep ==
    (Rendering /\ Top.failed) =>
        /\ log' = log
        /\ lastEnter' = lastEnter
        /\ IF Len(stack) > 1
           THEN /\ Len(stack') = Len(stack) - 1
                /\ Top'.failed
                /\ Cause(Top'.message) = Cause(Top.message)
                /\ Top'.i = stack[Len(stack) - 1].i
           ELSE /\ phase' = "returned"
                /\ ~outcome'.ok
                /\ outcome'.value = <<>>
                /\ outcome'.message = Top.message

\* two templates with two parts that both fail when name is not supplied
C15_FirstOfTwoFailures ==
    /\ (Returned /\ template = ArgumentThenMissing /\ nName \notin DOMAIN arguments) =>
           /\ ~outcome.ok
           /\ outcome.value = <<>>
           /\ outcome.message = MissingArgumentMessage(nName)
           /\ log = <<Event("arguments.get", nName)>>
           /\ lastEnter = None
    /\ (Returned /\ template = MissingThenArgument) =>
           /\ ~outcome.ok
           /\ outcome.value = <<>>
           /\ outcome.message = ErrorRetrieving(nMissing, PromptNotFound)
           /\ log = <<Event("enter_prompt", nMissing), Event("get_prompt", nMissing)>>

\* C15: parts are evaluated strictly left to right, depth first, and the
\* render stops at the first failure: the error returned is that of the
\* earliest failing part, no part after it is evaluated (no later argument
\* lookup, enter or storage fetch), and no partial output is returned.
C15_FirstFailureStops ==
    /\ [][C15_InOrderStep /\ C15_StopStep]_vars
    /\ [](C15_OnlyInnermostRuns /\ C15_FirstOfTwoFailures)

\* a missing argument has stopped the render before the reference after it
C15_StoppedBeforeReference ==
    /\ Returned
    /\ template = ArgumentThenMissing
    /\ ~outcome.ok
    /\ outcome.message = MissingArgumentMessage(nName)
    /\ log = <<Event("arguments.get", nName)>>

FailedToRenderFormat == "Failed to render referenced prompt '{}': {}"

\* the prefix one enclosing reference to `name` puts before an inner message
Prefixed(name, inner) == <<Segment(FailedToRenderFormat, name)>> \o inner

\* a failure handed up through an enclosing reference gets that reference's
\* prefix before it; the top-level render returns the message as it is
C16_WrapStep ==
    (Rendering /\ Top.failed) =>
        IF Len(stack) > 1
        THEN Top'.message = Prefixed(stack[Len(stack) - 1].target, Top.message)
        ELSE outcome'.message = Top.message

\* a failure that arises in an activation's own part carries no prefix
C16_AriseStep ==
    (Rendering /\ ~Top.failed /\ Len(stack') = Len(stack) /\ Top'.failed) =>
        \A j \in 1..Len(Top'.message) : Top'.message[j].fmt # FailedToRenderFormat

\* failures arising at nesting levels 0, 1, 2 and 3
C16_Levels ==
    /\ (Returned /\ template = HeyContent /\ nName \notin DOMAIN arguments) =>
           outcome.message = MissingArgumentMessage(nName)
    /\ (Returned /\ template = Ref(nGreeting) \o <<" ">> \o Arg(nName)
            /\ nName \notin DOMAIN arguments) =>
           outcome.message = Prefixed(nGreeting, MissingArgumentMessage(nName))
    /\ (Returned /\ template = Ref(P(1))
            /\ storage = ChainStorage(2, [i \in 1..1 |-> "fixed"], P(1))) =>
           outcome.message =
               Prefixed(P(1), Prefixed(P(2), CircularReference(P(1))))
    /\ \A n \in 4..MaxChain, k \in Kinds :
           ( /\ Returned
             /\ template = Edge(k, P(1))
             /\ arguments = FullArguments
             /\ \E kinds \in [1..(n - 1) -> Kinds] :
                    storage = ChainStorage(n, kinds, <<>>) )
           => outcome.message =
                  Prefixed(P(1), Prefixed(P(2), Prefixed(P(3), MaxDepthExceeded)))

\* C16: a failure arising while the content of a referenced prompt is
\* rendered at nesting level k >= 1 is returned with k prefixes "Failed to
\* render referenced prompt '<name>': ", one per enclosing reference, the
\* outermost first, before the inner message; a failure of the top-level
\* template's own parts is returned without a prefix.
C16_ErrorEnrichment ==
    /\ [][C16_WrapStep /\ C16_AriseStep]_vars
    /\ []C16_Levels

\* a failure three references deep has been returned with three prefixes
C16_ThreePrefixes ==
    /\ Returned
    /\ ~outcome.ok
    /\ outcome.message =
           Prefixed(P(1), Prefixed(P(2), Prefixed(P(3), MaxDepthExceeded)))

Nested == Len(stack) > 1

\* the arguments map of the call stays what the caller passed
C17_SameMapStep == Rendering => arguments' = arguments

\* an Argument part of a referenced prompt takes the top-level value
C17_NestedArgumentStep ==
    (AtPart("Argument") /\ Nested) =>
        IF Part.text \in DOMAIN arguments
        THEN /\ ~Top'.failed
             /\ Top'.result = Top.result \o arguments[Part.text]
        ELSE /\ Top'.failed
             /\ Top'.message = MissingArgumentMessage(Part.text)

\* a variable reference of a referenced prompt is looked up in the same map
C17_NestedVariableStep ==
    (AtPart("VariablePromptReference") /\ Nested) =>
        IF Part.text \in DOMAIN arguments
        THEN lastEnter'.name = arguments[Part.text]
        ELSE /\ Top'.failed
             /\ Top'.message = MissingArgumentMessage(Part.text)

GreetingChain == ChainStorage(2, [i \in 1..1 |-> "fixed"], nGreeting)

\* "Hi {{name}}!" one and three references below the top-level template
C17_NestedGreeting ==
    /\ (Returned /\ template = Ref(nGreeting) \o <<" ">> \o Arg(nName)) =>
           IF nName \in DOMAIN arguments
           THEN /\ outcome.ok
                /\ outcome.value = <<"H", "i", " ">> \o arguments[nName]
                                       \o <<"!", " ">> \o arguments[nName]
           ELSE /\ ~outcome.ok
                /\ Cause(outcome.message) = Segment("Missing argument: {}", nName)
    /\ (Returned /\ storage = GreetingChain /\ template = Ref(P(1))) =>
           IF nName \in DOMAIN arguments
           THEN /\ outcome.ok
                /\ outcome.value = <<"L", "1", "L", "2", "H", "i", " ">>
                                       \o arguments[nName] \o <<"!">>
           ELSE /\ ~outcome.ok
                /\ Cause(outcome.message) = Segment("Missing argument: {}", nName)

\* C17: every referenced prompt, at every nesting level, is rendered with
\* the arguments map of the top-level call: an Argument(name) inside a
\* nested prompt is replaced by the top-level value of name and fails with
\* MissingArgument exactly when the top-level arguments lack name.
C17_SameArguments ==
    /\ [][C17_SameMapStep /\ C17_NestedArgumentStep /\ C17_NestedVariableStep]_vars
    /\ []C17_NestedGreeting

\* an argument three references deep has taken the top-level value
C17_DeepArgumentRendered ==
    /\ Returned
    /\ storage = GreetingChain
    /\ template = Ref(P(1))
    /\ outcome.ok
    /\ outcome.value = <<"L", "1", "L", "2", "H", "i", " ">> \o World \o <<"!">>

(***************************************************************************)
(* render() as a function of the template, the arguments and the storage:  *)
(* render_internal and render_prompt_reference computed in one piece, the  *)
(* context threaded through as the code threads `&mut context`.            *)
(***************************************************************************)
RenderOk(value, ctx) ==
    [ok |-> TRUE, value |-> value, message |-> <<>>, context |-> ctx]

RenderErr(message, ctx) ==
    [ok |-> FALSE, value |-> <<>>, message |-> message, context |-> ctx]

RECURSIVE render_internal_value(_, _, _, _, _)
RECURSIVE render_prompt_reference_value(_, _, _, _, _)

\* fn render_internal over the parts still to render, `result` so far
render_internal_value(parts, args, prompts, ctx, result) ==
    IF parts = <<>> THEN RenderOk(result, ctx)
    ELSE LET part == Head(parts)
             reference(name, is_variable_reference) ==
                 LET r == render_prompt_reference_value(
                              name, is_variable_reference, args, prompts, ctx)
                 IN  IF r.ok
                     THEN render_internal_value(Tail(parts), args, prompts,
                                                r.context, result \o r.value)
                     ELSE r
         IN  CASE part.kind = "Literal" ->
                    render_internal_value(Tail(parts), args, prompts, ctx,
                                          result \o part.text)
               [] part.kind = "Argument" ->
                    IF part.text \in DOMAIN args
                    THEN render_internal_value(Tail(parts), args, prompts, ctx,
                                               result \o args[part.text])
                    ELSE RenderErr(MissingArgument(part.text), ctx)
               [] part.kind = "PromptReference" -> reference(part.text, FALSE)
               [] part.kind = "VariablePromptReference" ->
                    IF part.text \in DOMAIN args
                    THEN reference(args[part.text], TRUE)
                    ELSE RenderErr(MissingArgument(part.text), ctx)

\* fn render_prompt_reference; value is the text it pushes onto `result`
render_prompt_reference_value(prompt_name, is_variable_reference, args, prompts, ctx) ==
    LET entered == enter_prompt(ctx, prompt_name)
        got == get_prompt(prompts, prompt_name)
        new == PromptTemplateNew(got.content)
        rendered == render_internal_value(new.parts, args, prompts,
                                          entered.context, <<>>)
    IN  IF ~entered.ok THEN RenderErr(entered.message, ctx)
        ELSE IF ~got.ok
        THEN RenderErr(ErrorRetrieving(prompt_name, got.message),
                       exit_prompt(entered.context, prompt_name))
        ELSE IF ~new.ok
        THEN RenderErr(ErrorParsing(prompt_name, new.message),
                       exit_prompt(entered.context, prompt_name))
        ELSE IF ~rendered.ok
        THEN RenderErr(FailedToRender(prompt_name, rendered.message),
                       exit_prompt(rendered.context, prompt_name))
        ELSE RenderOk(rendered.value,
                      ExitAfterSuccess(rendered.context, prompt_name,
                                       is_variable_reference))

\* fn render: a new RenderValidationContext, then render_internal
render_value(content, args, prompts) ==
    render_internal_value(PromptTemplateNew(content).parts, args, prompts,
                          NewContext, <<>>)

\* what render() of the call that has returned is to return and to leave
\* behind, whatever ran before it
C18_FunctionOfCall ==
    Returned =>
        /\ outcome.ok = render_value(template, arguments, storage).ok
        /\ outcome.value = render_value(template, arguments, storage).value
        /\ outcome.message = render_value(template, arguments, storage).message
        /\ context = render_value(template, arguments, storage).context

\* every call of render() starts with a RenderValidationContext of its own
C18_FreshContextStep ==
    (phase = "idle" /\ phase' = "rendering") =>
        /\ context' = NewContext
        /\ Len(stack') = 1
        /\ stack'[1].i = 1
        /\ stack'[1].result = <<>>

\* C18: independent renders never interfere: every top-level render starts
\* from a context with empty visited_prompts and current_depth 0, and what a
\* render returns is determined by its template, its arguments and the
\* storage alone, whatever renders, successful or failed, ran before it.
C18_RendersIndependent ==
    /\ [][C18_FreshContextStep]_vars
    /\ []C18_FunctionOfCall

\* a render has finished and left entries in its context; the storage holds
\* prompts the next render can reach
C18_EarlierRenderLeftEntries ==
    /\ phase = "idle"
    /\ context.visited_prompts # {}
    /\ context.current_depth > 0

\* the targets of the reference resolutions active on the call path: one
\* for every render_internal activation under the top-level one
ActiveTargets(frames) == {frames[i].target : i \in 1..(Len(frames) - 1)}

\* a step in which render_prompt_reference called enter_prompt
EnterStep ==
    /\ Len(log') > Len(log)
    /\ log'[Len(log')].op = "enter_prompt"

\* enter_prompt fails with CircularReference only for a target that is
\* active on the call path, with MaxDepthExceeded only when three
\* resolutions are active
C24_EnterStep ==
    EnterStep /\ ~lastEnter'.ok =>
        /\ lastEnter'.message = CircularReference(lastEnter'.name)
               => lastEnter'.name \in ActiveTargets(stack)
        /\ lastEnter'.message = MaxDepthExceeded
               => Len(stack) - 1 = MAX_NESTING_DEPTH

GreetingOutput == <<"H", "i", " ">> \o World \o <<"!">>

\* the templates that resolve greeting twice side by side render it twice;
\* four sibling variable references to four prompts without references
\* render
C24_SiblingsRender ==
    Returned /\ arguments = FullArguments =>
        /\ nGreeting \in DOMAIN storage
             /\ template \in {VarRef(To(nGreeting)) \o VarRef(To(nGreeting)),
                               VarRef(To(nGreeting)) \o Ref(nGreeting)}
             => outcome.ok /\ outcome.value = GreetingOutput \o GreetingOutput
        /\ storage = SiblingStorage /\ template = FourSiblings
             => outcome.ok /\ outcome.value = <<"a", "b", "x", "y">>

\* C24: the outcome of resolving a reference depends only on the targets
\* that are active ancestors on the call path: a sibling resolution that has
\* returned successfully never makes a later reference of either kind fail
\* with CircularReference or MaxDepthExceeded; `{{prompt_var:t}}` twice and
\* `{{prompt_var:t}}{{prompt:greeting}}` with t = greeting render greeting
\* twice, four sibling variable references to four distinct prompts render.
C24_SiblingsIndependent == [][C24_EnterStep]_vars /\ [](C24_SiblingsRender)

\* the second of two sibling variable references to greeting has failed
\* with CircularReference although no resolution was active
C24_SecondSiblingRejected ==
    /\ Returned
    /\ template = VarRef(To(nGreeting)) \o VarRef(To(nGreeting))
    /\ arguments = FullArguments
    /\ ~outcome.ok
    /\ outcome.message = CircularReference(nGreeting)
    /\ Len(stack) = 1

\* current_depth is the number of names in visited_prompts
Balanced(ctx) == ctx.current_depth = Cardinality(ctx.visited_prompts)

\* C25: in every state reached during a render, after every enter and every
\* exit, on success paths and on error paths, current_depth equals the
\* number of names in visited_prompts.
C25_DepthIsVisitedCount ==
    /\ Balanced(context)
    /\ lastEnter # None => Balanced(lastEnter.before) /\ Balanced(lastEnter.after)
    /\ lastReturn # None => Balanced(lastReturn.before) /\ Balanced(lastReturn.after)

\* a failed resolution two levels down has exited, two names are left
C25_UnwoundToTwo ==
    /\ phase = "rendering"
    /\ lastReturn # None
    /\ ~lastReturn.ok
    /\ context.current_depth = 2
    /\ Cardinality(context.visited_prompts) = 2

\* a step of a running render that lowers current_depth is an exit_prompt
\* of a name that is in visited_prompts, at a depth above 0
C26_ExitStep ==
    phase = "rendering" /\ context'.current_depth < context.current_depth =>
        /\ lastReturn'.target \in context.visited_prompts
        /\ context.current_depth > 0
        /\ context' = [visited_prompts |-> context.visited_prompts \ {lastReturn'.target},
                       current_depth |-> context.current_depth - 1]

\* C26: current_depth stays within 0..=3 in every reachable state of every
\* render: exit_prompt is only called for a name whose enter succeeded and
\* that has not been exited, so the counter is never decremented at 0, and
\* enter never raises it above MAX_NESTING_DEPTH.
C26_DepthInRange ==
    /\ [][C26_ExitStep]_vars
    /\ [](context.current_depth \in 0..3)

\* an enter has been refused at depth 3, and a resolution entered at depth 0
\* has exited back to depth 0
C26_RefusedAtThree ==
    /\ lastEnter # None
    /\ lastEnter.before.current_depth = 3
    /\ lastEnter.message = MaxDepthExceeded
    /\ lastReturn # None
    /\ lastReturn.before.current_depth = 0
    /\ lastReturn.after.current_depth = 0

\* the stored prompts whose content the top-level template was built from
TopLevelNames == {name \in DOMAIN storage : storage[name] = template}

\* the targets of the active resolutions, outermost first
ActivePath == [i \in 1..(Len(stack) - 1) |-> stack[i].target]

\* C27: no prompt is rendered while that same prompt is being rendered
\* higher on the same call path, the top-level prompt included: with a
\* reachable from itself (a -> b -> a) the reference back to a is rejected
\* with CircularReference naming a, and the content of a is not fetched and
\* rendered a second time before the render fails.
C27_NoPromptRenderedWithinItself ==
    phase \in {"rendering", "returned"} =>
        /\ \A i \in DOMAIN ActivePath, j \in DOMAIN ActivePath :
               i # j => ActivePath[i] # ActivePath[j]
        /\ \A name \in TopLevelNames :
               /\ name \notin Range(ActivePath)
               /\ Event("get_prompt", name) \notin Range(log)
        /\ Returned /\ RenderingCycle /\ template = storage[nA]
               => /\ ~outcome.ok
                  /\ Cause(outcome.message) = Segment(CircularFormat, nA)

\* the render of a, with a -> b -> a by fixed references, has fetched a
\* again and has failed with CircularReference naming b
C27_TopLevelFetchedAgain ==
    /\ Returned
    /\ storage = CycleStorage("fixed", "fixed")
    /\ template = storage[nA]
    /\ Event("get_prompt", nA) \in Range(log)
    /\ ~outcome.ok
    /\ Cause(outcome.message) = Segment(CircularFormat, nB)

\* the events a step adds to the log
Added == SubSeq(log', Len(log) + 1, Len(log'))

Fetched(name) == Event("get_prompt", name) \in Range(Added)

\* the names of the added events of one kind
AddedNames(op) == {Added[k].name : k \in {j \in DOMAIN Added : Added[j].op = op}}

\* a step of a running render only adds to the log
C29_LogStep ==
    phase = "rendering" /\ phase' = "rendering" =>
        Len(log') >= Len(log) /\ SubSeq(log', 1, Len(log)) = log

\* storage.get_prompt(target) is called only when the call before it was
\* the enter of target and that enter succeeded
C29_FetchStep ==
    \A name \in AddedNames("get_prompt") :
        phase = "rendering" =>
            /\ lastEnter # None
            /\ lastEnter.ok
            /\ lastEnter.name = name
            /\ log # <<>>
            /\ log[Len(log)] = Event("enter_prompt", name)
            /\ name \in context.visited_prompts
            /\ Added[1] = Event("get_prompt", name)

\* the fetched content is parsed only after the fetch succeeded, and
\* rendered only after the fetch and the parse succeeded
C29_RenderFetchedStep ==
    /\ \A name \in AddedNames("PromptTemplate::new") :
           phase = "rendering" => Fetched(name) /\ get_prompt(storage, name).ok
    /\ phase = "rendering" /\ Len(stack') > Len(stack) =>
           /\ Fetched(Top.target)
           /\ get_prompt(storage, Top.target).ok
           /\ PromptTemplateNew(storage[Top.target]).ok
           /\ stack'[Len(stack')] = NewFrame(PromptTemplateNew(storage[Top.target]).parts)

\* a reference rejected by enter_prompt causes no fetch: the activation has
\* failed and is not past an enter
C29_RejectedStep ==
    EnterStep /\ ~lastEnter'.ok =>
        /\ \A k \in DOMAIN Added : Added[k].op # "get_prompt"
        /\ stack'[Len(stack')].failed
        /\ stack'[Len(stack')].pc # "entered"
        /\ Len(stack') = Len(stack)

\* a variable reference whose argument is missing causes no enter and no
\* fetch
C29_MissingArgumentStep ==
    AtPart("VariablePromptReference") /\ Part.text \notin DOMAIN arguments =>
        /\ Added = <<Event("arguments.get", Part.text)>>
        /\ UNCHANGED <<context, lastEnter>>
        /\ stack'[Len(stack')].failed
        /\ Len(stack') = Len(stack)

\* C29: the order of one reference resolution: storage.get_prompt(target)
\* is invoked only after enter(target) has succeeded, the fetched content
\* is parsed and rendered only after the fetch succeeded; a reference
\* rejected as circular or over-depth causes no fetch, a variable reference
\* whose argument is missing causes neither an enter nor a fetch.
C29_ProtocolOrder ==
    [][/\ C29_LogStep
       /\ C29_FetchStep
       /\ C29_RenderFetchedStep
       /\ C29_RejectedStep
       /\ C29_MissingArgumentStep]_vars

\* a render has ended at a rejected enter after enters that were followed
\* by their fetch, and nothing was fetched for the rejected one
C29_RejectedWithoutFetch ==
    /\ Returned
    /\ ~outcome.ok
    /\ lastEnter # None
    /\ ~lastEnter.ok
    /\ Len(log) > 3
    /\ log[Len(log)] = Event("enter_prompt", lastEnter.name)
    /\ log[Len(log) - 1].op = "PromptTemplate::new"
    /\ log[Len(log) - 2].op = "get_prompt"

SpecIdentifierChars == AsciiLetters \cup AsciiDigits \cup {"_", "-"}

\* the identifier grammar: 1 to 64 characters, each alphanumeric, - or _
IsIdentifier(name) ==
    /\ Len(name) \in 1..64
    /\ \A k \in DOMAIN name : name[k] \in SpecIdentifierChars

\* C30: every name passed to storage.get_prompt during a render satisfies
\* the identifier grammar, the names that come from the argument value of
\* a variable prompt reference included; a value outside the grammar
\* (empty, longer than 64, holding characters such as / or .) is rejected
\* before any storage lookup.
C30_FetchedNamesAreIdentifiers ==
    \A k \in DOMAIN log :
        log[k].op = "get_prompt" => IsIdentifier(log[k].name)

\* storage.get_prompt has been called with the argument value `../x`
C30_ParentPathFetched ==
    /\ Returned
    /\ template = MessageContent
    /\ arguments = OutsideArguments
    /\ Event("get_prompt", ParentPath) \in Range(log)
    /\ ~outcome.ok

(***************************************************************************)
(* Termination of the renderer, checked under FairSpec.                    *)
(***************************************************************************)
\* C28: render terminates for every template, every arguments map and every
\* storage content, the storages whose prompts refer to themselves or to
\* each other in cycles, by fixed and by variable references, included: it
\* returns a string or an error after finitely many steps, with never more
\* than 3 reference resolutions active at once.
C28_RenderTerminates ==
    /\ [](Len(stack) - 1 <= 3)
    /\ (phase = "rendering") ~> (Returned /\ outcome # None)

\* the render of a reference into the longest cycle has returned an error
C28_LongestCycleReturned ==
    /\ Returned
    /\ storage = ChainStorage(MaxChain, [i \in 1..(MaxChain - 1) |-> "fixed"], P(1))
    /\ template = Edge("variable", P(1))
    /\ arguments = FullArguments
    /\ ~outcome.ok

(***************************************************************************)
(* Properties of the parser, checked under ParseSpec.                      *)
(***************************************************************************)
StartsWith(s, t) == Len(s) >= Len(t) /\ SubSeq(s, 1, Len(t)) = t

\* length of the construct `pre IDENT }}` that s begins with, 0 if it begins
\* with none; IDENT is 1..64 characters identifier() takes
ConstructLength(s, pre) ==
    IF ~StartsWith(s, pre) THEN 0
    ELSE LET body == Drop(s, Len(pre))
             ks == {k \in 1..Len(body) :
                      /\ k <= 64
                      /\ \A j \in 1..k : IdentifierChar(body[j])
                      /\ StartsWith(Drop(body, k), CLOSE)}
         IN  IF ks = {} THEN 0 ELSE Len(pre) + Min(ks) + Len(CLOSE)

\* length of the escaped literal, up to its first `}}}}`, that s begins with,
\* 0 if it begins with none
EscapeLength(s) ==
    IF ~StartsWith(s, OPEN \o OPEN) THEN 0
    ELSE LET ends == {i \in 4..(Len(s) - 4) : SubSeq(s, i + 1, i + 4) = CLOSE \o CLOSE}
         IN  IF ends = {} THEN 0 ELSE Min(ends) + 4

\* length of the escaped literal, reference or argument s begins with, else 0
OpenedLength(s) ==
    IF EscapeLength(s) > 0 THEN EscapeLength(s)
    ELSE IF ConstructLength(s, OPEN \o PROMPT) > 0 THEN ConstructLength(s, OPEN \o PROMPT)
    ELSE IF ConstructLength(s, OPEN \o PROMPT_VAR) > 0
    THEN ConstructLength(s, OPEN \o PROMPT_VAR)
    ELSE ConstructLength(s, OPEN)

\* every `{{` of s outside an escaped-literal span begins a complete escaped
\* literal, prompt reference, variable prompt reference or argument
RECURSIVE EveryOpenBeginsConstruct(_)
EveryOpenBeginsConstruct(s) ==
    IF s = <<>> THEN TRUE
    ELSE IF ~StartsWith(s, OPEN) THEN EveryOpenBeginsConstruct(Tail(s))
    ELSE /\ OpenedLength(s) > 0
         /\ EveryOpenBeginsConstruct(Drop(s, OpenedLength(s)))

\* C9: parsing is total-consuming: parse fails for every input in which some
\* `{{` outside an escaped-literal span does not begin a complete escaped
\* literal, reference or argument (it is never returned as a Literal), and a
\* successful parse leaves an empty remainder.
C9_TotalConsuming ==
    parsed.ok =>
        /\ parsed.rest = <<>>
        /\ EveryOpenBeginsConstruct(input.text)

\* an unterminated argument after literal text has been rejected
C9_UnterminatedRejected ==
    /\ input.text = <<"a">> \o OPEN \o <<"a">>
    /\ ~parsed.ok

\* C10: identifier characters are restricted to A-Z, a-z, 0-9, '_' and '-':
\* no Argument, PromptReference or VariablePromptReference is accepted whose
\* identifier holds any other character.
C10_IdentifierCharacters ==
    parsed.ok =>
        \A i \in 1..Len(parsed.out) :
            parsed.out[i].kind # "Literal" =>
                \A j \in 1..Len(parsed.out[i].text) :
                    parsed.out[i].text[j] \in SpecIdentifierChars

\* an argument whose identifier holds '@' has been rejected
C10_PunctuationRejected ==
    /\ input.text = OPEN \o <<"a">> \o <<"@">> \o CLOSE
    /\ ~parsed.ok

\* the escaped literal s begins with, as parse_element is to return it
EscapedElement(s) ==
    ParseOk(Drop(s, EscapeLength(s)), Literal(SubSeq(s, 5, EscapeLength(s) - 4)))

\* the parse of text that begins with a closed escaped literal: that Literal,
\* then the parse of what follows its first `}}}}`
EscapedThenRest(s, after) ==
    IF after.ok THEN ParseOk(<<>>, <<EscapedElement(s).out>> \o after.out)
    ELSE [ok |-> FALSE, rest |-> after.rest, out |-> <<>>]

\* C12: at a position starting with `{{{{` the escaped-literal rule wins and
\* takes the shortest span: the Literal holds exactly the characters between
\* the opener and the first following `}}}}`, braces included, and parsing
\* resumes right after that `}}}}`; `{{{{{{name}}}}}}` yields
\* Literal("{{name") and the literal run "}}".
C12_EscapedShortestSpan ==
    /\ \A i \in 1..Len(input.text) :
           EscapeLength(Drop(input.text, i - 1)) > 0 =>
               parse_element(Drop(input.text, i - 1))
                   = EscapedElement(Drop(input.text, i - 1))
    /\ EscapeLength(input.text) > 0 =>
           parsed = EscapedThenRest(input.text,
                        parse_template(Drop(input.text, EscapeLength(input.text))))
    /\ parse_template(Esc(OPEN \o nName) \o CLOSE)
           = ParseOk(<<>>, <<Literal(OPEN \o nName), Literal(CLOSE)>>)

\* `{{{{a}}}}}}` has been parsed into Literal("a") and the literal run "}}"
C12_ClosedAtFirstEnd ==
    /\ input.text = OPEN \o OPEN \o <<"a">> \o CLOSE \o CLOSE \o CLOSE
    /\ parsed = ParseOk(<<>>, <<Literal(<<"a">>), Literal(CLOSE)>>)

\* a part written back in the template syntax
Written(part) ==
    CASE part.kind = "Literal" -> part.text
      [] part.kind = "Argument" -> OPEN \o part.text \o CLOSE
      [] part.kind = "PromptReference" -> OPEN \o PROMPT \o part.text \o CLOSE
      [] part.kind = "VariablePromptReference" ->
             OPEN \o PROMPT_VAR \o part.text \o CLOSE

RECURSIVE Unparse(_)
Unparse(parts) ==
    IF parts = <<>> THEN <<>> ELSE Written(Head(parts)) \o Unparse(Tail(parts))

Occurs(pat, s) ==
    \E i \in 0..(Len(s) - Len(pat)) : SubSeq(s, i + 1, i + Len(pat)) = pat

\* C13: for a content that parses and holds no escaped literal, writing the
\* parts back in order (Literal as its text, the placeholders as their
\* markers) reproduces the content exactly; no Literal of a literal run is
\* empty; text without `{{`, single braces included, is one Literal.
C13_ParsePrintRoundTrip ==
    /\ (parsed.ok /\ ~Occurs(OPEN \o OPEN, input.text)) =>
           /\ Unparse(parsed.out) = input.text
           /\ \A i \in 1..Len(parsed.out) :
                  parsed.out[i].kind = "Literal" => parsed.out[i].text # <<>>
    /\ (input.text # <<>> /\ ~Occurs(OPEN, input.text)) =>
           parsed = ParseOk(<<>>, <<Literal(input.text)>>)

\* `}{{a}}` has been parsed into a Literal and an Argument
C13_SingleBraceThenArgument ==
    /\ input.text = <<"}">> \o OPEN \o <<"a">> \o CLOSE
    /\ parsed = ParseOk(<<>>, <<Literal(<<"}">>), Argument(<<"a">>)>>)

(***************************************************************************)
(* Properties of the identifier length, checked under LengthSpec.          *)
(***************************************************************************)
EnclosedKind == IF input.open = OPEN THEN "Argument" ELSE "PromptReference"

\* C11: an identifier of 1 to 64 allowed characters followed by `}}` is
\* accepted, for arguments and for prompt references, and returned
\* unchanged; an empty identifier and every identifier of 65 or more
\* characters make the construct and the parse fail: nothing is truncated to
\* the first 64 characters.
C11_IdentifierLength ==
    IF Len(input.name) \in 1..64
    THEN /\ delimited_identifier(input.open, CLOSE, input.text)
                  = ParseOk(<<>>, input.name)
         /\ parsed = ParseOk(<<>>, <<[kind |-> EnclosedKind, text |-> input.name]>>)
    ELSE /\ ~delimited_identifier(input.open, CLOSE, input.text).ok
         /\ ~parsed.ok

\* a prompt reference with an identifier of 65 characters has been rejected
C11_OverLengthRejected ==
    /\ input.open = OPEN \o PROMPT
    /\ Len(input.name) = 65
    /\ ~parsed.ok

(***************************************************************************)
(* Properties of the file storage, checked under StorageSpec.              *)
(***************************************************************************)
\* the names that have a stored prompt
StoredNow(fs) == {name \in StoredNames : Exists(fs, file_path(name))}

LastCall(op) == called # None /\ called.op = op

\* a name becomes stored by a save_prompt that returned Ok and stops being
\* stored by a delete_prompt that returned Ok, and by nothing else
C19_StoredStep ==
    called' # None =>
        StoredNow(files') =
            IF called'.op = "save_prompt" /\ called'.result.ok
            THEN StoredNow(files) \cup {called'.name}
            ELSE IF called'.op = "delete_prompt" /\ called'.result.ok
            THEN StoredNow(files) \ {called'.name}
            ELSE StoredNow(files)

\* get_prompt of a name that is not stored returned PromptNotFound
C19_NotFound ==
    LastCall("get_prompt") /\ called.name \notin StoredNow(files) =>
        called.result = StorageErr(FilePromptNotFound(file_path(called.name)))

\* C19: get_prompt returns the PromptNotFound error for every name that was
\* never saved or was deleted since its last save, and never a prompt.
C19_NotFoundForUnknown == [][C19_StoredStep]_vars /\ [](C19_NotFound)

\* get_prompt failed for one name in a directory that stores the other
C19_NotFoundBesideStored ==
    /\ LastCall("get_prompt")
    /\ ~called.result.ok
    /\ StoredNow(files) = StoredNames \ {called.name}

\* get_prompt(p.name) straight after save_prompt(p) returned Ok hands back
\* the name, the tags and the content of p
C20_RoundTripStep ==
    /\ LastCall("save_prompt")
    /\ called.result.ok
    /\ called'.op = "get_prompt"
    /\ called'.name = called.name
    => /\ called'.result.ok
       /\ called'.result.value.metadata.name = called.prompt.metadata.name
       /\ called'.result.value.metadata.tags = called.prompt.metadata.tags
       /\ called'.result.value.content = called.prompt.content

\* C20: after save_prompt(p) succeeds, get_prompt(p.name) returns a prompt
\* with the name, the tags in the same order and the content of p, for
\* every content, one that begins with whitespace or newlines included;
\* after two saves under one name it returns the second prompt only.
C20_StorageRoundTrip == [][C20_RoundTripStep]_vars

\* get_prompt returned "Hi" from a file written for the content " Hi"
C20_LeadingWhitespaceLost ==
    /\ LastCall("get_prompt")
    /\ called.result.ok
    /\ called.result.value.content = <<"H", "i">>
    /\ files.entries[file_path(called.name)].rest
           \in {sep \o <<" ", "H", "i">> : sep \in Separators}

\* the names of the prompts a get_prompts result lists
Listed(result) == {result.value[i].metadata.name : i \in DOMAIN result.value}

\* delete_prompt of a stored name returns Ok and removes the file of that
\* name only; of a name that is not stored it returns PromptNotFound and
\* changes nothing
C21_DeleteStep ==
    called'.op = "delete_prompt" =>
        IF called'.name \in StoredNow(files)
        THEN /\ called'.result = StorageOk(None)
             /\ StoredNow(files') = StoredNow(files) \ {called'.name}
             /\ \A name \in StoredNow(files') :
                    /\ files'.entries[file_path(name)] = files.entries[file_path(name)]
                    /\ FileStorage_get_prompt(files', name)
                           = FileStorage_get_prompt(files, name)
        ELSE /\ called'.result
                    = StorageErr(FilePromptNotFound(file_path(called'.name)))
             /\ files' = files

\* the call that follows a delete_prompt that returned Ok: get_prompt of the
\* name fails with PromptNotFound, get_prompts lists the other stored
\* prompts and not the deleted one
C21_AfterDeleteStep ==
    LastCall("delete_prompt") /\ called.result.ok =>
        /\ called'.op = "get_prompt" /\ called'.name = called.name =>
               called'.result = StorageErr(FilePromptNotFound(file_path(called.name)))
        /\ called'.op = "get_prompts" =>
               /\ called'.result.ok
               /\ Listed(called'.result) = StoredNow(files) \ {called.name}

InvalidTemplate(content) == ~PromptTemplateNew(content).ok

\* save_prompt of a prompt whose content is not a valid template returns Ok
\* wherever base_path can hold prompts
C22_SaveStep ==
    /\ called'.op = "save_prompt"
    /\ InvalidTemplate(called'.prompt.content)
    /\ files.base # "file"
    => called'.result = StorageOk(None)

\* get_prompt straight after the save of such a prompt returns Ok with the
\* content as saved, on which PromptTemplate::new fails
C22_LoadStep ==
    /\ LastCall("save_prompt")
    /\ called.result.ok
    /\ InvalidTemplate(called.prompt.content)
    /\ called'.op = "get_prompt"
    /\ called'.name = called.name
    => /\ called'.result.ok
       /\ called'.result.value.content = called.prompt.content
       /\ PromptTemplateNew(called'.result.value.content).message = ParseTemplateError

\* C22: the storage does not validate template syntax: save_prompt and
\* get_prompt both succeed for a prompt whose content is not a valid
\* template, returning the content unchanged; the parse failure is reported
\* only by PromptTemplate::new on the loaded prompt.
C22_StorageDoesNotValidate == [][C22_SaveStep /\ C22_LoadStep]_vars

\* get_prompt returned the unclosed `{{n` from a file saved with ` {{n`
C22_InvalidContentTrimmed ==
    /\ LastCall("get_prompt")
    /\ called.result.ok
    /\ called.result.value.content = OPEN \o <<"n">>
    /\ InvalidTemplate(called.result.value.content)
    /\ files.entries[file_path(called.name)].rest
           \in {sep \o <<" ">> \o OPEN \o <<"n">> : sep \in Separators}

(***************************************************************************)
(* Properties of the command line, checked under CliSpec.                  *)
(***************************************************************************)
\* Add of a name that has a file: without --overwrite it fails with
\* "Prompt '<name>' already exists" and changes no file, with --overwrite
\* the file of the name becomes the new prompt and no other file changes
C23_AddStep ==
    called'.op = "add" /\ Exists(files, file_path(called'.name)) =>
        IF ~called'.overwrite
        THEN /\ called'.result = StorageErr(AlreadyExists(called'.name))
             /\ files' = files
        ELSE /\ called'.result = StorageOk(None)
             /\ files'.entries[file_path(called'.name)]
                    \in {serialize(called'.prompt.metadata, called'.prompt.content, sep) :
                            sep \in Separators}
             /\ \A path \in DOMAIN files.entries \ {file_path(called'.name)} :
                    Exists(files', path) /\ files'.entries[path] = files.entries[path]

\* C23: Add without --overwrite never replaces a prompt that already exists
\* in storage: whenever a file for the name is present it fails with
\* "Prompt '<name>' already exists" and leaves the file unchanged, also when
\* get_prompt cannot read or deserialize that file; with --overwrite the new
\* prompt replaces the old one.
C23_AddNeverReplaces == [][C23_AddStep]_vars

\* Add without --overwrite returned Ok and replaced a file without front
\* matter that was there under the name
C23_InvalidFileReplaced ==
    /\ called # None
    /\ called.op = "add"
    /\ ~called.overwrite
    /\ called.before = Some(WithoutFrontMatter(InvalidContent))
    /\ called.result.ok
    /\ files.entries[file_path(called.name)] # WithoutFrontMatter(InvalidContent)

====
